---- MODULE Spec2Model ----
(***************************************************************************)
(* Model of the matchmaking bot: the SQLite store (src/database.py) and    *)
(* the update handlers with their two ConversationHandlers (src/bot.py).   *)
(*                                                                         *)
(* Conventions.  A Python value that may be None is an option: None is <<>>*)
(* and a present value v is <<v>>.  A dict is a function whose DOMAIN is   *)
(* the set of keys present.  A message text is <<lead, body, trail>> where *)
(* lead and trail are runs of whitespace and body has none at its ends, so *)
(* that str.strip() is a real operation.  The Russian button captions are  *)
(* transliterated to ASCII.  The application handles one update at a time  *)
(* (bot.py:1132 builds it without concurrent_updates), so a handler is one *)
(* atomic action.                                                          *)
(***************************************************************************)
EXTENDS FiniteSets, Integers, Sequences, TLC

\* ---------------------------------------------------------------- bounds
MaxTime == 1         \* CURRENT_TIMESTAMP takes the values 0..MaxTime
MaxNotify == 2       \* match notifications counted per (recipient, other)
MaxPhotos == 4       \* pending media items a session is followed up to

Users == {1, 2, 3}      \* telegram ids
FormChatters == {1}     \* who sends updates in Spec
MatchChatters == {1, 2} \* who sends updates in SpecMatch
BrowseChatters == {1}   \* who sends updates in SpecBrowse
Times == 0..MaxTime

\* ------------------------------------------------------- python values
None == <<>>
Some(v) == <<v>>
Truthy(o) == o # None /\ o[1] # ""

EmptyDict == [k \in {} |-> None]
Get(d, k, default) == IF k \in DOMAIN d THEN d[k] ELSE default
Pop(d, k) == [x \in DOMAIN d \ {k} |-> d[x]]
Put(d, k, v) == [x \in DOMAIN d \cup {k} |-> IF x = k THEN v ELSE d[x]]
PopAll(d, ks) == [x \in DOMAIN d \ ks |-> d[x]]

strip(text) == text[2]
raw(text) == text[1] \o text[2] \o text[3]
Plain(body) == <<"", body, "">>

\* ------------------------------------------------------ bot.py constants
ASK_NAME == 0
ASK_AGE == 1
ASK_GENDER == 2
ASK_LOOKING_FOR == 3
ASK_PHOTO == 4
ASK_BIO == 5
END == -1

LIKE_BUTTON == "<3"
SKIP_BUTTON == "dislike"
MENU_BUTTON == "<-"
CANCEL_BUTTON == "Otmenit'"
PHOTO_SKIP_BUTTON == "Ostavit' tekushchie foto"
BROWSE_TEXT == "Smotret' ankety"
MY_PROFILE_TEXT == "Moya anketa"
EDIT_TEXT == "Redaktirovat' anketu"
REFILL_TEXT == "Zapolnit' anketu zanovo"

GENDER_TEXT_TO_CODE == [t \in {"Ya paren'", "Ya devushka"} |->
                          IF t = "Ya paren'" THEN "male" ELSE "female"]
CODE_TO_GENDER_TEXT == [c \in {"male", "female"} |->
                          IF c = "male" THEN "Paren'" ELSE "Devushka"]
LOOKING_TEXT_TO_CODE == [t \in {"Ishchu druga", "Ishchu podrugu"} |->
                          IF t = "Ishchu druga" THEN "male" ELSE "female"]
CODE_TO_LOOKING_TEXT == [c \in {"male", "female"} |->
                          IF c = "male" THEN "druga" ELSE "podrugu"]

format_gender(code) ==
    IF code # None /\ code[1] \in DOMAIN CODE_TO_GENDER_TEXT
    THEN CODE_TO_GENDER_TEXT[code[1]] ELSE "Ne ukazan"

format_preference(code) ==
    IF code # None /\ code[1] \in DOMAIN CODE_TO_LOOKING_TEXT
    THEN CODE_TO_LOOKING_TEXT[code[1]] ELSE "Ne ukazano"

keep_name_button(name) == "Ostavit' imya: " \o name
keep_age_button(age) == "Ostavit' vozrast: " \o ToString(age)
\* variant: the caption is built also when there is no code
keep_gender_button_Always(code) ==
    Some("Ostavit' pol: " \o format_gender(code))

keep_gender_button(code) ==
    IF ~Truthy(code) THEN None ELSE Some("Ostavit' pol: " \o format_gender(code))
keep_preference_button(code) ==
    IF ~Truthy(code) THEN None ELSE Some("Ostavit' poisk: " \o format_preference(code))

\* str.isdigit() and int() on the numerals the users type
Numerals == ("15" :> 15) @@ ("16" :> 16) @@ ("17" :> 17) @@ ("100" :> 100) @@ ("101" :> 101)
\* "sup2" stands for the one-character text U+00B2 (superscript two), which
\* str.isdigit() takes for a digit and int() refuses with ValueError
SUPERSCRIPT_TWO == "sup2"
isdigit(s) == s \in DOMAIN Numerals \cup {SUPERSCRIPT_TWO}
int_raises(s) == s \notin DOMAIN Numerals
int(s) == Numerals[s]

UsernameOf(u) == Some("user" \o ToString(u))

\* ------------------------------------------------------------- variables
VARIABLES
    users,                  \* table users: telegram_id -> row
    likes,                  \* table likes: set of rows
    now,                    \* CURRENT_TIMESTAMP
    profile_conversation,   \* ConversationHandler state per user (END = none)
    reprofile_conversation, \* ConversationHandler state per user (END = none)
    user_data,              \* context.user_data per user
    actions_keyboard,       \* the user holds a message with PROFILE_ACTIONS_KEYBOARD
    delivered,              \* match notifications delivered: [recipient][other]
    uncaught,               \* the last update ended in error_handler
    reacted,                \* history: pairs <<from, to>> ever passed to record_reaction
    lock,                   \* Database._lock: 0 when free, else the worker holding it
    pc                      \* per worker: the handler it runs and the step it is at

vars == <<users, likes, now, profile_conversation, reprofile_conversation,
          user_data, actions_keyboard, delivered, uncaught, reacted, lock, pc>>

lockVars == <<lock, pc>>

\* who may be inside a handler at the same time in SpecLock
Workers == {1, 2}
Idle == [handler |-> "idle", block |-> "idle", at |-> 0, viewer |-> <<>>,
         candidate |-> <<>>, photos |-> <<>>]

storeVars == <<users, likes>>
chatVars == <<profile_conversation, reprofile_conversation, user_data,
              actions_keyboard, delivered>>

\* ------------------------------------------------------------ database.py
DB == [users |-> users, likes |-> likes]

\* INSERT INTO users (telegram_id, username, phone, profile_completed) VALUES (?, ?, ?, 0)
NewRow(username) ==
    [username |-> username, display_name |-> None, age |-> None,
     gender |-> None, preferred_gender |-> None, bio |-> None,
     photo_urls |-> None, photo_file_id |-> None,
     profile_completed |-> 0, updated_at |-> now]

\* variant: INSERT OR REPLACE, which puts a new row in place of the old one
upsert_user_Replace(db, telegram_id, username) ==
    [db EXCEPT !.users =
        IF telegram_id \in DOMAIN db.users
        THEN [db.users EXCEPT ![telegram_id] = NewRow(username)]
        ELSE Put(db.users, telegram_id, NewRow(username))]

upsert_user(db, telegram_id, username) ==
    [db EXCEPT !.users =
        IF telegram_id \in DOMAIN db.users
        THEN [db.users EXCEPT ![telegram_id].username = username]
        ELSE Put(db.users, telegram_id, NewRow(username))]

\* Declared @staticmethod with a leading self parameter and always called as
\* self._normalize_photo_ref(ref): the one argument binds to self and the
\* call raises TypeError (missing positional argument 'ref').
\* variant: the call reaches the method with its argument and returns
normalize_photo_ref_Returns(ref) ==
    [raised |-> FALSE,
     value |-> [file_id |-> ref.file_id, url |-> ref.url,
                type |-> IF Truthy(ref.type) THEN ref.type ELSE Some("photo")]]

normalize_photo_ref(ref) ==
    [raised |-> TRUE,
     value |-> [file_id |-> ref.file_id, url |-> ref.url,
                type |-> IF Truthy(ref.type) THEN ref.type ELSE Some("photo")]]

serialize_photo_urls(photo_refs) ==
    IF photo_refs = <<>>
    THEN [raised |-> FALSE, value |-> None]
    ELSE [raised |-> \E i \in DOMAIN photo_refs : normalize_photo_ref(photo_refs[i]).raised,
          value |-> Some([i \in DOMAIN photo_refs |-> normalize_photo_ref(photo_refs[i]).value])]

deserialize_photo_urls(value) ==
    IF value = None \/ value[1] = <<>>
    THEN <<>>
    ELSE [i \in DOMAIN value[1] |->
            [file_id |-> value[1][i].file_id, url |-> value[1][i].url,
             type |-> IF Truthy(value[1][i].type) THEN value[1][i].type ELSE Some("photo")]]

extract_photo_refs(row) ==
    IF row = None THEN <<>>
    ELSE LET refs == deserialize_photo_urls(row[1].photo_urls)
             legacy == row[1].photo_file_id
         IN  IF refs # <<>> THEN refs
             ELSE IF Truthy(legacy)
                  THEN << [file_id |-> legacy, url |-> None, type |-> Some("photo")] >>
                  ELSE <<>>

\* The result is [raised |-> TRUE] when the call raises before the UPDATE,
\* otherwise the store after the UPDATE (no row matches a missing id).
set_profile(db, telegram_id, display_name, age, bio, gender, preferred_gender, photo_refs, username) ==
    LET normalized == [i \in DOMAIN photo_refs |-> normalize_photo_ref(photo_refs[i])]
        raised == \E i \in DOMAIN photo_refs : normalized[i].raised
        serial == serialize_photo_urls([i \in DOMAIN photo_refs |-> normalized[i].value])
    IN  IF raised \/ serial.raised
        THEN [raised |-> TRUE, users |-> db.users, likes |-> db.likes]
        ELSE [raised |-> FALSE,
              likes |-> db.likes,
              users |-> IF telegram_id \notin DOMAIN db.users
                        THEN db.users
                        ELSE [db.users EXCEPT ![telegram_id] =
                                [@ EXCEPT !.display_name = display_name,
                                          !.age = age,
                                          !.bio = bio,
                                          !.gender = gender,
                                          !.preferred_gender = preferred_gender,
                                          !.photo_urls = serial.value,
                                          !.photo_file_id = None,
                                          !.username = username,
                                          !.profile_completed = 1,
                                          !.updated_at = now]]]

\* The result is [raised |-> TRUE] when a ref fails to normalise, before the
\* UPDATE; otherwise the store after the UPDATE.
\* variant: the UPDATE sets updated_at = CURRENT_TIMESTAMP as well
update_photo_refs_Touches(db, telegram_id, photo_refs) ==
    LET normalized == [i \in DOMAIN photo_refs |-> normalize_photo_ref(photo_refs[i])]
        raised == \E i \in DOMAIN photo_refs : normalized[i].raised
        refs == [i \in DOMAIN photo_refs |-> normalized[i].value]
        serialized == serialize_photo_urls(refs)
        handled == {i \in DOMAIN refs : Truthy(refs[i].file_id)}
        primary_file_id ==
            IF handled = {} THEN None
            ELSE refs[CHOOSE i \in handled : \A j \in handled : i <= j].file_id
    IN  IF raised \/ serialized.raised
        THEN [raised |-> TRUE, users |-> db.users, likes |-> db.likes]
        ELSE [raised |-> FALSE,
              likes |-> db.likes,
              users |-> IF telegram_id \notin DOMAIN db.users
                        THEN db.users
                        ELSE [db.users EXCEPT ![telegram_id] =
                                [@ EXCEPT !.photo_urls = serialized.value,
                                          !.updated_at = now,
                                          !.photo_file_id =
                                              IF primary_file_id # None
                                              THEN primary_file_id ELSE @]]]

update_photo_refs(db, telegram_id, photo_refs) ==
    LET normalized == [i \in DOMAIN photo_refs |-> normalize_photo_ref(photo_refs[i])]
        raised == \E i \in DOMAIN photo_refs : normalized[i].raised
        refs == [i \in DOMAIN photo_refs |-> normalized[i].value]
        serialized == serialize_photo_urls(refs)
        handled == {i \in DOMAIN refs : Truthy(refs[i].file_id)}
        primary_file_id ==
            IF handled = {} THEN None
            ELSE refs[CHOOSE i \in handled : \A j \in handled : i <= j].file_id
    IN  IF raised \/ serialized.raised
        THEN [raised |-> TRUE, users |-> db.users, likes |-> db.likes]
        ELSE [raised |-> FALSE,
              likes |-> db.likes,
              users |-> IF telegram_id \notin DOMAIN db.users
                        THEN db.users
                        ELSE [db.users EXCEPT ![telegram_id] =
                                [@ EXCEPT !.photo_urls = serialized.value,
                                          !.photo_file_id =
                                              IF primary_file_id # None
                                              THEN primary_file_id ELSE @]]]

\* variant: the reactions directed at the user are deleted as well
reset_profile_BothDirections(db, telegram_id) ==
    [users |-> IF telegram_id \notin DOMAIN db.users
               THEN db.users
               ELSE [db.users EXCEPT ![telegram_id] =
                       [@ EXCEPT !.display_name = None,
                                 !.age = None,
                                 !.bio = None,
                                 !.gender = None,
                                 !.preferred_gender = None,
                                 !.photo_file_id = None,
                                 !.photo_urls = None,
                                 !.profile_completed = 0,
                                 !.updated_at = now]],
     likes |-> {l \in db.likes : l.from_user_id # telegram_id
                                 /\ l.to_user_id # telegram_id}]

reset_profile(db, telegram_id) ==
    [users |-> IF telegram_id \notin DOMAIN db.users
               THEN db.users
               ELSE [db.users EXCEPT ![telegram_id] =
                       [@ EXCEPT !.display_name = None,
                                 !.age = None,
                                 !.bio = None,
                                 !.gender = None,
                                 !.preferred_gender = None,
                                 !.photo_file_id = None,
                                 !.photo_urls = None,
                                 !.profile_completed = 0,
                                 !.updated_at = now]],
     likes |-> {l \in db.likes : l.from_user_id # telegram_id}]

get_user(db, telegram_id) ==
    IF telegram_id \in DOMAIN db.users THEN Some(db.users[telegram_id]) ELSE None

\* variant: a plain INSERT without ON CONFLICT ... DO UPDATE
record_reaction_PlainInsert(db, from_user_id, to_user_id, status) ==
    [db EXCEPT !.likes =
        db.likes \cup {[from_user_id |-> from_user_id, to_user_id |-> to_user_id,
                        status |-> status, created_at |-> now]}]

record_reaction(db, from_user_id, to_user_id, status) ==
    LET conflict == {l \in db.likes : l.from_user_id = from_user_id
                                      /\ l.to_user_id = to_user_id}
    IN  [db EXCEPT !.likes =
            IF conflict = {}
            THEN db.likes \cup {[from_user_id |-> from_user_id, to_user_id |-> to_user_id,
                                 status |-> status, created_at |-> now]}
            ELSE (db.likes \ conflict)
                 \cup {[l EXCEPT !.status = status, !.created_at = now] : l \in conflict}]

\* variant: the join without the WHERE clause on the statuses
has_mutual_like_AnyStatus(db, user_a, user_b) ==
    \E l1 \in db.likes, l2 \in db.likes :
        /\ l1.from_user_id = user_a /\ l1.to_user_id = user_b
        /\ l2.from_user_id = user_b /\ l2.to_user_id = user_a

\* variant: WHERE l1.status = 'like' only
has_mutual_like_OwnStatus(db, user_a, user_b) ==
    \E l1 \in db.likes, l2 \in db.likes :
        /\ l1.from_user_id = user_a /\ l1.to_user_id = user_b
        /\ l2.from_user_id = user_b /\ l2.to_user_id = user_a
        /\ l1.status = "like"

has_mutual_like(db, user_a, user_b) ==
    \E l1 \in db.likes, l2 \in db.likes :
        /\ l1.from_user_id = user_a /\ l1.to_user_id = user_b
        /\ l2.from_user_id = user_b /\ l2.to_user_id = user_a
        /\ l1.status = "like" /\ l2.status = "like"

\* variant: only the reactions the user authored are deleted
delete_user_AuthoredOnly(db, telegram_id) ==
    [users |-> Pop(db.users, telegram_id),
     likes |-> {l \in db.likes : l.from_user_id # telegram_id}]

delete_user(db, telegram_id) ==
    [users |-> Pop(db.users, telegram_id),
     likes |-> {l \in db.likes : ~(l.from_user_id = telegram_id
                                   \/ l.to_user_id = telegram_id)}]

get_profile_text(db, telegram_id) ==
    LET user == get_user(db, telegram_id)
    IN  IF user = None \/ user[1].profile_completed = 0
        THEN None
        ELSE Some(<<user[1].display_name, user[1].age, user[1].gender,
                    user[1].preferred_gender, user[1].bio>>)

list_user_ids(db) == {id \in DOMAIN db.users : db.users[id].profile_completed = 1}

\* ---- get_next_profile: the SELECT, its ORDER BY, and the filtering loop
\* WHERE u.telegram_id != ? AND u.profile_completed = 1 AND u.telegram_id NOT IN (...)
\* variant: the SELECT without the NOT IN (... likes ...) clause
Selected_NoExclusion(db, telegram_id) ==
    {id \in DOMAIN db.users :
        /\ id # telegram_id
        /\ db.users[id].profile_completed = 1}

Selected(db, telegram_id) ==
    {id \in DOMAIN db.users :
        /\ id # telegram_id
        /\ db.users[id].profile_completed = 1
        /\ id \notin {l.to_user_id : l \in {m \in db.likes : m.from_user_id = telegram_id}}}

\* variant: ORDER BY u.updated_at ASC
OrderedRows_Ascending(db, telegram_id) ==
    LET S == Selected(db, telegram_id)
        n == Cardinality(S)
    IN  {o \in [1..n -> S] :
            /\ \A i, j \in 1..n : i # j => o[i] # o[j]
            /\ \A i, j \in 1..n :
                 i < j => db.users[o[i]].updated_at <= db.users[o[j]].updated_at}

\* ORDER BY u.updated_at DESC: every listing of the selected rows in which
\* updated_at never increases; rows with equal updated_at come in any order.
OrderedRows(db, telegram_id) ==
    LET S == Selected(db, telegram_id)
        n == Cardinality(S)
    IN  {o \in [1..n -> S] :
            /\ \A i, j \in 1..n : i # j => o[i] # o[j]
            /\ \A i, j \in 1..n :
                 i < j => db.users[o[i]].updated_at >= db.users[o[j]].updated_at}

\* for row in cur.fetchall(): ... continue ... return row; return None
RECURSIVE FirstPassing(_, _, _, _, _)
FirstPassing(db, rows, i, viewer_gender, viewer_preference) ==
    IF i > Len(rows) THEN None
    ELSE LET row == db.users[rows[i]]
         IN  IF Truthy(viewer_preference) /\ Truthy(row.gender)
                /\ row.gender # viewer_preference
             THEN FirstPassing(db, rows, i + 1, viewer_gender, viewer_preference)
             ELSE IF Truthy(row.preferred_gender) /\ Truthy(viewer_gender)
                     /\ row.preferred_gender # viewer_gender
                  THEN FirstPassing(db, rows, i + 1, viewer_gender, viewer_preference)
                  ELSE Some(rows[i])

\* variant: the loop without the viewer_preference test
get_next_profile_NoPreference(db, telegram_id, viewer_gender, viewer_preference) ==
    {FirstPassing(db, o, 1, viewer_gender, None) :
        o \in OrderedRows(db, telegram_id)}

\* the results the query can give (one per admissible row order)
get_next_profile(db, telegram_id, viewer_gender, viewer_preference) ==
    {FirstPassing(db, o, 1, viewer_gender, viewer_preference) :
        o \in OrderedRows(db, telegram_id)}

\* ------------------------------------------------- updates and dispatch
TextEv(t) == [kind |-> "text", text |-> t]
CommandEv(c) == [kind |-> "command", command |-> c]
PhotoEv == [kind |-> "photo"]
CallbackEv(d) == [kind |-> "callback", data |-> d]

\* filters.Regex(f"^{caption}$") searches the unstripped message text
Matches(ev, caption) == ev.kind = "text" /\ raw(ev.text) = caption
IsText(ev) == ev.kind = "text"
IsCommand(ev, c) == ev.kind = "command" /\ ev.command = c

\* states={...}: the first handler of the state's list whose filter matches
StateHandler(state, ev) ==
    IF Matches(ev, CANCEL_BUTTON) THEN "cancel_profile"
    ELSE IF state = ASK_PHOTO /\ ev.kind = "photo" THEN "receive_photo"
    ELSE IF state = ASK_PHOTO /\ Matches(ev, PHOTO_SKIP_BUTTON) THEN "skip_photo"
    ELSE IF ~IsText(ev) THEN "none"
    ELSE IF state = ASK_NAME THEN "ask_name"
    ELSE IF state = ASK_AGE THEN "ask_age"
    ELSE IF state = ASK_GENDER THEN "ask_gender"
    ELSE IF state = ASK_LOOKING_FOR THEN "ask_preference"
    ELSE IF state = ASK_PHOTO THEN "invalid_photo_text"
    ELSE IF state = ASK_BIO THEN "finish_profile"
    ELSE "none"

\* fallbacks=[CommandHandler("start", start), CommandHandler("cancel", cancel_profile)]
Fallback(ev) ==
    IF IsCommand(ev, "/start") THEN "start"
    ELSE IF IsCommand(ev, "/cancel") THEN "cancel_profile"
    ELSE "none"

ProfileEntry(ev) == IF IsCommand(ev, "/start") THEN "start" ELSE "none"

ReprofileEntry(ev) ==
    IF Matches(ev, REFILL_TEXT) \/ IsCommand(ev, "/reset") THEN "restart_profile"
    ELSE IF Matches(ev, EDIT_TEXT) THEN "edit_profile_message"
    ELSE "none"

\* ConversationHandler.check_update with allow_reentry=True: entry points are
\* tried first in every state, then the state's handlers, then the fallbacks.
ConversationCheck(state, entry, ev) ==
    IF entry # "none" THEN entry
    ELSE IF state = END THEN "none"
    ELSE IF StateHandler(state, ev) # "none" THEN StateHandler(state, ev)
    ELSE Fallback(ev)

\* application.add_handler(...) in order, all in group 0: the first handler
\* that accepts the update handles it and the others do not see it.
Route(u, ev) ==
    LET first == ConversationCheck(profile_conversation[u], ProfileEntry(ev), ev)
        second == ConversationCheck(reprofile_conversation[u], ReprofileEntry(ev), ev)
    IN  IF first # "none" THEN <<"profile_conversation", first>>
        ELSE IF second # "none" THEN <<"reprofile_conversation", second>>
        ELSE IF ev.kind = "callback" THEN
            (IF ev.data = "reset_profile" THEN <<"application", "reset_profile_callback">>
             ELSE IF ev.data = "edit_profile" THEN <<"application", "edit_profile_callback">>
             ELSE IF ev.data = "delete_profile" THEN <<"application", "delete_profile_callback">>
             ELSE <<"application", "none">>)
        ELSE IF Matches(ev, MY_PROFILE_TEXT) THEN <<"application", "show_profile">>
        ELSE IF Matches(ev, BROWSE_TEXT) THEN <<"application", "browse_profiles">>
        ELSE IF Matches(ev, LIKE_BUTTON) THEN <<"application", "handle_like">>
        ELSE IF Matches(ev, SKIP_BUTTON) THEN <<"application", "handle_skip">>
        ELSE IF Matches(ev, MENU_BUTTON) THEN <<"application", "back_to_menu">>
        ELSE IF ev.kind \in {"command", "text"} THEN <<"application", "unknown">>
        ELSE <<"application", "none">>

\* The conversation that ran the handler stores the state it returned
\* (END removes the conversation); a handler registered on the
\* application itself has its return value dropped.
Returned(conv, u, state) ==
    /\ profile_conversation' =
          IF conv = "profile_conversation"
          THEN [profile_conversation EXCEPT ![u] = state] ELSE profile_conversation
    /\ reprofile_conversation' =
          IF conv = "reprofile_conversation"
          THEN [reprofile_conversation EXCEPT ![u] = state] ELSE reprofile_conversation

SessionKeys == {"profile_name", "profile_age", "profile_photos", "profile_gender",
                "profile_preference", "profile_previous", "editing_profile"}
PendingKeys == {"profile_name", "profile_age", "profile_photos", "profile_gender",
                "profile_preference"}

\* previous = context.user_data.get("profile_previous", {}); previous.get(field)
PreviousGet(ud, field) ==
    IF "profile_previous" \in DOMAIN ud THEN ud["profile_previous"][field] ELSE None

ensure_profile(db, u) ==
    get_user(db, u) # None /\ get_user(db, u)[1].profile_completed = 1

\* ---------------------------------------------------------------- inputs
Padded(body) == <<" ", body, " ">>
NameBodies == {"Ann"}
AgeBodies == {"17"}
BioBodies == {"Love hiking"}
PhotoIds == {"f1"}
SendOutcomes == {"ok", "BadRequest", "TelegramError"}

PhotoRef(f) == [file_id |-> Some(f), url |-> Some("file_path/" \o f), type |-> Some("photo")]

\* _fetch_telegram_profile_media: nothing, or the user's one profile picture
TelegramProfileMedia(u) == {<<>>, <<PhotoRef("avatar" \o ToString(u))>>}

\* -------------------------------------------------------------- handlers
Handled(u, ev, name) == Route(u, ev)[2] = name
Conv(u, ev) == Route(u, ev)[1]
\* A handler taken as one step starts and ends with the lock free: every
\* store call it makes leaves its with self._lock block, also when it raises.
Ok == uncaught' = FALSE /\ UNCHANGED lockVars
Raise == uncaught' = TRUE /\ UNCHANGED lockVars
SetData(u, ud) == user_data' = [user_data EXCEPT ![u] = ud]
SetStore(db) == users' = db.users /\ likes' = db.likes

\* ------------------------------------------------------ media rendering
FetchOutcomes == {"ok", "HTTPError"}
Slots == 1..4   \* the places of a media sequence that outcomes are drawn for
FetchOk == [i \in Slots |-> "ok"]
SendOk == [i \in Slots |-> "ok"]

media_kind(ref) ==
    IF ref.type \in {Some("photo"), Some("video")} THEN ref.type[1] ELSE "photo"

\* variant: the url is fetched whenever the ref has one
resolve_media_input_UrlFirst(ref, fetch) ==
    IF Truthy(ref.url)
    THEN IF fetch = "ok"
         THEN [input |-> Some("bytes of " \o ref.url[1]), fetched |-> TRUE,
               kind |-> media_kind(ref), network |-> TRUE, raised |-> FALSE]
         ELSE [input |-> None, fetched |-> FALSE, kind |-> media_kind(ref),
               network |-> TRUE, raised |-> TRUE]
    ELSE [input |-> ref.file_id, fetched |-> FALSE, kind |-> media_kind(ref),
          network |-> FALSE, raised |-> FALSE]

\* _resolve_media_input(ref) when the GET of the url, if one is issued, ends
\* as fetch; network tells whether the GET was issued, raised whether
\* client.get or raise_for_status raised.
resolve_media_input(ref, fetch) ==
    IF Truthy(ref.file_id)
    THEN [input |-> ref.file_id, fetched |-> FALSE, kind |-> media_kind(ref),
          network |-> FALSE, raised |-> FALSE]
    ELSE IF ~Truthy(ref.url)
    THEN [input |-> None, fetched |-> FALSE, kind |-> media_kind(ref),
          network |-> FALSE, raised |-> FALSE]
    ELSE IF fetch = "ok"
    THEN [input |-> Some("bytes of " \o ref.url[1]), fetched |-> TRUE,
          kind |-> media_kind(ref), network |-> TRUE, raised |-> FALSE]
    ELSE [input |-> None, fetched |-> FALSE, kind |-> media_kind(ref),
          network |-> TRUE, raised |-> TRUE]

\* variant: every ref after the first is resolved and sent
card_pass_AllRefs(photo_refs, fetch, send, safe_first) ==
    LET shown == DOMAIN photo_refs
        res(i) == resolve_media_input(photo_refs[i], fetch[i])
        swallowed(i) == send[i] = "BadRequest"
                        /\ (i > 1 \/ safe_first \/ res(i).kind = "video")
        failing(i) == send[i] # "ok" /\ ~swallowed(i)
        reached(i) == i = 1 \/ (~res(1).raised /\ res(1).input # None)
        stops == {i \in shown :
                    reached(i) /\ (res(i).raised \/ (res(i).input # None /\ failing(i)))}
        stop == IF stops = {} THEN 5 ELSE CHOOSE i \in stops : \A j \in stops : i <= j
        resolved == {i \in shown : reached(i) /\ i <= stop}
        sends == {i \in resolved : ~res(i).raised /\ res(i).input # None}
        delivered_ == {i \in sends : send[i] = "ok"}
        hydrated == {i \in delivered_ :
                       res(i).fetched \/ ~Truthy(photo_refs[i].file_id)}
        text == shown = {} \/ (~res(1).raised /\ res(1).input = None)
        text_raised == text /\ send[1] # "ok" /\ ~(send[1] = "BadRequest" /\ safe_first)
    IN  [resolved |-> resolved,
         fetches |-> {i \in resolved : res(i).network},
         sends |-> sends,
         delivered |-> delivered_,
         hydrated |-> hydrated,
         text |-> text,
         first_delivered |-> (text /\ send[1] = "ok") \/ 1 \in delivered_,
         raised |-> stops # {} \/ text_raised,
         refs |-> [i \in DOMAIN photo_refs |->
                     IF i \in hydrated
                     THEN [photo_refs[i] EXCEPT !.file_id = Some("sent" \o ToString(i)),
                                                !.type = Some(res(i).kind)]
                     ELSE photo_refs[i]]]

\* One rendering pass over photo_refs, as _send_profile_card,
\* send_next_profile and notify_match each spell it out: photo_refs[0] with
\* the caption, then photo_refs[1:3]; a text message when there is no first
\* input. fetch[i] and send[i] are the outcomes of the GET and of the send for
\* the i-th ref (send[1] also for the text message). safe_first tells
\* whether the first message goes through a _safe_send_* wrapper, which
\* swallows BadRequest; a video and the later refs always do.
card_pass(photo_refs, fetch, send, safe_first) ==
    LET shown == {i \in DOMAIN photo_refs : i <= 3}
        res(i) == resolve_media_input(photo_refs[i], fetch[i])
        swallowed(i) == send[i] = "BadRequest"
                        /\ (i > 1 \/ safe_first \/ res(i).kind = "video")
        failing(i) == send[i] # "ok" /\ ~swallowed(i)
        reached(i) == i = 1 \/ (~res(1).raised /\ res(1).input # None)
        stops == {i \in shown :
                    reached(i) /\ (res(i).raised \/ (res(i).input # None /\ failing(i)))}
        stop == IF stops = {} THEN 4 ELSE CHOOSE i \in stops : \A j \in stops : i <= j
        resolved == {i \in shown : reached(i) /\ i <= stop}
        sends == {i \in resolved : ~res(i).raised /\ res(i).input # None}
        delivered_ == {i \in sends : send[i] = "ok"}
        hydrated == {i \in delivered_ :
                       res(i).fetched \/ ~Truthy(photo_refs[i].file_id)}
        text == shown = {} \/ (~res(1).raised /\ res(1).input = None)
        text_raised == text /\ send[1] # "ok" /\ ~(send[1] = "BadRequest" /\ safe_first)
    IN  [resolved |-> resolved,
         fetches |-> {i \in resolved : res(i).network},
         sends |-> sends,
         delivered |-> delivered_,
         hydrated |-> hydrated,
         text |-> text,
         first_delivered |-> (text /\ send[1] = "ok") \/ 1 \in delivered_,
         raised |-> stops # {} \/ text_raised,
         refs |-> [i \in DOMAIN photo_refs |->
                     IF i \in hydrated
                     THEN [photo_refs[i] EXCEPT !.file_id = Some("sent" \o ToString(i)),
                                                !.type = Some(res(i).kind)]
                     ELSE photo_refs[i]]]

\* _send_profile_card: TRUE when one of the first three refs got a file_id
\* from the sent message (it was fetched by url, or had no file_id)
send_profile_card(photo_refs) ==
    card_pass(photo_refs, FetchOk, SendOk, TRUE).hydrated # {}

start(u) ==
    LET ev == CommandEv("/start")
        db == upsert_user(DB, u, UsernameOf(u))
    IN  /\ Handled(u, ev, "start")
        /\ SetStore(db)
        /\ IF ~ensure_profile(db, u)
           THEN /\ SetData(u, PopAll(user_data[u], {"profile_previous", "editing_profile"}))
                /\ Returned(Conv(u, ev), u, ASK_NAME)
           ELSE /\ UNCHANGED user_data
                /\ Returned(Conv(u, ev), u, END)
        /\ Ok
        /\ UNCHANGED <<now, actions_keyboard, delivered, reacted>>

\* variant: the keep branch stores the typed caption like any other name
ask_name_KeepsCaption(u, t) ==
    LET ev == TextEv(t)
        text == strip(t)
        previous_name == PreviousGet(user_data[u], "name")
        keep_name == IF Truthy(previous_name)
                     THEN Some(keep_name_button(previous_name[1])) ELSE None
    IN  /\ Handled(u, ev, "ask_name")
        /\ IF keep_name # None /\ text = keep_name[1]
           THEN /\ SetData(u, Put(user_data[u], "profile_name", Some(text)))
                /\ Returned(Conv(u, ev), u, ASK_AGE)
           ELSE IF Len(text) < 2
                THEN /\ UNCHANGED user_data
                     /\ Returned(Conv(u, ev), u, ASK_NAME)
                ELSE /\ SetData(u, Put(user_data[u], "profile_name", Some(text)))
                     /\ Returned(Conv(u, ev), u, ASK_AGE)
        /\ Ok
        /\ UNCHANGED <<users, likes, now, actions_keyboard, delivered, reacted>>

ask_name(u, t) ==
    LET ev == TextEv(t)
        text == strip(t)
        previous_name == PreviousGet(user_data[u], "name")
        keep_name == IF Truthy(previous_name)
                     THEN Some(keep_name_button(previous_name[1])) ELSE None
    IN  /\ Handled(u, ev, "ask_name")
        /\ IF keep_name # None /\ text = keep_name[1]
           THEN /\ SetData(u, Put(user_data[u], "profile_name", previous_name))
                /\ Returned(Conv(u, ev), u, ASK_AGE)
           ELSE IF Len(text) < 2
                THEN /\ UNCHANGED user_data
                     /\ Returned(Conv(u, ev), u, ASK_NAME)
                ELSE /\ SetData(u, Put(user_data[u], "profile_name", Some(text)))
                     /\ Returned(Conv(u, ev), u, ASK_AGE)
        /\ Ok
        /\ UNCHANGED <<users, likes, now, actions_keyboard, delivered, reacted>>

\* variant: the lower age threshold is exclusive
ask_age_Over16(u, t) ==
    LET ev == TextEv(t)
        text == strip(t)
        previous_age == PreviousGet(user_data[u], "age")
        keep_age == IF previous_age # None
                    THEN Some(keep_age_button(previous_age[1])) ELSE None
    IN  /\ Handled(u, ev, "ask_age")
        /\ IF keep_age # None /\ text = keep_age[1]
           THEN /\ SetData(u, Put(user_data[u], "profile_age", previous_age))
                /\ Returned(Conv(u, ev), u, ASK_GENDER)
           ELSE IF ~isdigit(text)
                THEN /\ UNCHANGED user_data
                     /\ Returned(Conv(u, ev), u, ASK_AGE)
                ELSE IF int_raises(text)
                THEN UNCHANGED <<user_data, profile_conversation, reprofile_conversation>>
                ELSE IF int(text) <= 16 \/ int(text) > 100
                     THEN /\ UNCHANGED user_data
                          /\ Returned(Conv(u, ev), u, ASK_AGE)
                     ELSE /\ SetData(u, Put(user_data[u], "profile_age", Some(int(text))))
                          /\ Returned(Conv(u, ev), u, ASK_GENDER)
        /\ IF isdigit(text) /\ int_raises(text)
              /\ ~(keep_age # None /\ text = keep_age[1])
           THEN Raise ELSE Ok
        /\ UNCHANGED <<users, likes, now, actions_keyboard, delivered, reacted>>

ask_age(u, t) ==
    LET ev == TextEv(t)
        text == strip(t)
        previous_age == PreviousGet(user_data[u], "age")
        keep_age == IF previous_age # None
                    THEN Some(keep_age_button(previous_age[1])) ELSE None
    IN  /\ Handled(u, ev, "ask_age")
        /\ IF keep_age # None /\ text = keep_age[1]
           THEN /\ SetData(u, Put(user_data[u], "profile_age", previous_age))
                /\ Returned(Conv(u, ev), u, ASK_GENDER)
           ELSE IF ~isdigit(text)
                THEN /\ UNCHANGED user_data
                     /\ Returned(Conv(u, ev), u, ASK_AGE)
                ELSE IF int_raises(text)
                THEN UNCHANGED <<user_data, profile_conversation, reprofile_conversation>>
                ELSE IF int(text) < 16 \/ int(text) > 100
                     THEN /\ UNCHANGED user_data
                          /\ Returned(Conv(u, ev), u, ASK_AGE)
                     ELSE /\ SetData(u, Put(user_data[u], "profile_age", Some(int(text))))
                          /\ Returned(Conv(u, ev), u, ASK_GENDER)
        /\ IF isdigit(text) /\ int_raises(text)
              /\ ~(keep_age # None /\ text = keep_age[1])
           THEN Raise ELSE Ok
        /\ UNCHANGED <<users, likes, now, actions_keyboard, delivered, reacted>>

ask_gender(u, t) ==
    LET ev == TextEv(t)
        choice == strip(t)
        code == IF choice \in DOMAIN GENDER_TEXT_TO_CODE
                THEN Some(GENDER_TEXT_TO_CODE[choice]) ELSE None
        keep_gender == keep_gender_button(PreviousGet(user_data[u], "gender"))
    IN  /\ Handled(u, ev, "ask_gender")
        /\ IF keep_gender # None /\ choice = keep_gender[1]
           THEN /\ SetData(u, Put(user_data[u], "profile_gender",
                                  PreviousGet(user_data[u], "gender")))
                /\ Returned(Conv(u, ev), u, ASK_LOOKING_FOR)
           ELSE IF Truthy(code)
                THEN /\ SetData(u, Put(user_data[u], "profile_gender", code))
                     /\ Returned(Conv(u, ev), u, ASK_LOOKING_FOR)
                ELSE /\ UNCHANGED user_data
                     /\ Returned(Conv(u, ev), u, ASK_GENDER)
        /\ Ok
        /\ UNCHANGED <<users, likes, now, actions_keyboard, delivered, reacted>>

ask_preference(u, t) ==
    LET ev == TextEv(t)
        choice == strip(t)
        code == IF choice \in DOMAIN LOOKING_TEXT_TO_CODE
                THEN Some(LOOKING_TEXT_TO_CODE[choice]) ELSE None
        keep_pref == keep_preference_button(PreviousGet(user_data[u], "preference"))
        chosen == IF keep_pref # None /\ choice = keep_pref[1]
                  THEN PreviousGet(user_data[u], "preference")
                  ELSE code
        stored == Put(user_data[u], "profile_preference", chosen)
    IN  /\ Handled(u, ev, "ask_preference")
        /\ IF (keep_pref # None /\ choice = keep_pref[1]) \/ Truthy(code)
           THEN /\ SetData(u, IF "profile_photos" \notin DOMAIN stored
                              THEN Put(stored, "profile_photos", <<>>) ELSE stored)
                /\ Returned(Conv(u, ev), u, ASK_PHOTO)
           ELSE /\ UNCHANGED user_data
                /\ Returned(Conv(u, ev), u, ASK_LOOKING_FOR)
        /\ Ok
        /\ UNCHANGED <<users, likes, now, actions_keyboard, delivered, reacted>>

\* variant: the preview pass stores the handle of the photo it showed
receive_photo_WritesBack(u, f) ==
    LET ev == PhotoEv
        photos == Get(user_data[u], "profile_photos", <<>>)
    IN  /\ Handled(u, ev, "receive_photo")
        /\ Len(photos) < MaxPhotos
        /\ SetData(u, Put(user_data[u], "profile_photos", Append(photos, PhotoRef(f))))
        /\ Returned(Conv(u, ev), u, ASK_BIO)
        /\ Ok
        /\ users' = IF u \in DOMAIN users
                    THEN [users EXCEPT ![u].photo_file_id = Some(f)] ELSE users
        /\ UNCHANGED <<likes, now, actions_keyboard, delivered, reacted>>

\* filters.PHOTO guarantees message.photo, and such a message carries no
\* video, so the photo branch is the one taken; the preview card sends refs
\* that already hold a file_id and changes none of them.
receive_photo(u, f) ==
    LET ev == PhotoEv
        photos == Get(user_data[u], "profile_photos", <<>>)
    IN  /\ Handled(u, ev, "receive_photo")
        /\ Len(photos) < MaxPhotos
        /\ SetData(u, Put(user_data[u], "profile_photos", Append(photos, PhotoRef(f))))
        /\ Returned(Conv(u, ev), u, ASK_BIO)
        /\ Ok
        /\ UNCHANGED <<users, likes, now, actions_keyboard, delivered, reacted>>

skip_photo(u, fetched) ==
    LET ev == TextEv(Plain(PHOTO_SKIP_BUTTON))
        photos == Get(user_data[u], "profile_photos", <<>>)
        defaulted == Put(user_data[u], "profile_photos", photos)
    IN  /\ Handled(u, ev, "skip_photo")
        /\ IF photos = <<>>
           THEN SetData(u, IF fetched # <<>>
                           THEN Put(defaulted, "profile_photos", fetched) ELSE defaulted)
           ELSE fetched = <<>> /\ SetData(u, defaulted)
        /\ Returned(Conv(u, ev), u, ASK_BIO)
        /\ Ok
        /\ UNCHANGED <<users, likes, now, actions_keyboard, delivered, reacted>>

\* variant: the unrecognised text moves the form on to the bio
invalid_photo_text_Advances(u, t) ==
    LET ev == TextEv(t)
    IN  /\ Handled(u, ev, "invalid_photo_text")
        /\ Returned(Conv(u, ev), u, ASK_BIO)
        /\ Ok
        /\ UNCHANGED <<users, likes, now, user_data, actions_keyboard, delivered, reacted>>

invalid_photo_text(u, t) ==
    LET ev == TextEv(t)
    IN  /\ Handled(u, ev, "invalid_photo_text")
        /\ Returned(Conv(u, ev), u, ASK_PHOTO)
        /\ Ok
        /\ UNCHANGED <<users, likes, now, user_data, actions_keyboard, delivered, reacted>>

\* the values finish_profile passes to set_profile
FinalName(ud) == Get(ud, "profile_name", PreviousGet(ud, "name"))
FinalAge(ud) == Get(ud, "profile_age", PreviousGet(ud, "age"))
FinalGender(ud) == Get(ud, "profile_gender", PreviousGet(ud, "gender"))
FinalPreference(ud) == Get(ud, "profile_preference", PreviousGet(ud, "preference"))
FinalPhotos(ud, fetched) ==
    LET pending == Get(ud, "profile_photos", <<>>)
        previous == IF "profile_previous" \in DOMAIN ud
                    THEN ud["profile_previous"]["photos"] ELSE <<>>
        photos == IF pending # <<>> THEN pending ELSE previous
    IN  IF photos = <<>> THEN fetched ELSE photos

finish_profile(u, t, fetched) ==
    LET ev == TextEv(t)
        bio == strip(t)
        ud == user_data[u]
        photos == FinalPhotos(ud, fetched)
        saved == set_profile(DB, u, FinalName(ud), FinalAge(ud), Some(bio),
                             FinalGender(ud), FinalPreference(ud), photos, UsernameOf(u))
    IN  /\ Handled(u, ev, "finish_profile")
        /\ (FinalPhotos(ud, <<>>) # <<>> => fetched = <<>>)
        /\ IF Len(bio) < 5
           THEN /\ fetched = <<>>
                /\ Returned(Conv(u, ev), u, ASK_BIO)
                /\ Ok
                /\ UNCHANGED <<users, likes, user_data, actions_keyboard>>
           ELSE IF saved.raised
                THEN /\ Raise
                     /\ UNCHANGED <<users, likes, user_data, actions_keyboard,
                                    profile_conversation, reprofile_conversation>>
                ELSE /\ SetStore(saved)
                     /\ SetData(u, PopAll(ud, SessionKeys))
                     /\ actions_keyboard' = [actions_keyboard EXCEPT ![u] = TRUE]
                     /\ IF send_profile_card(photos)
                        THEN Raise /\ UNCHANGED <<profile_conversation, reprofile_conversation>>
                        ELSE Ok /\ Returned(Conv(u, ev), u, END)
        /\ UNCHANGED <<now, delivered, reacted>>

show_profile(u, fetch, send) ==
    LET ev == TextEv(Plain(MY_PROFILE_TEXT))
        profile == get_user(DB, u)
        pass == card_pass(extract_photo_refs(profile), fetch, send, TRUE)
        saved == update_photo_refs(DB, u, pass.refs)
    IN  /\ Handled(u, ev, "show_profile")
        /\ IF profile = None \/ profile[1].profile_completed = 0
           THEN /\ fetch = FetchOk /\ send = SendOk
                /\ Ok /\ UNCHANGED <<users, likes, actions_keyboard>>
           ELSE /\ actions_keyboard' =
                      [actions_keyboard EXCEPT ![u] = @ \/ pass.first_delivered]
                /\ IF pass.raised
                   THEN Raise /\ UNCHANGED <<users, likes>>
                   ELSE IF pass.hydrated # {}
                   THEN SetStore(saved) /\ (IF saved.raised THEN Raise ELSE Ok)
                   ELSE Ok /\ UNCHANGED <<users, likes>>
        /\ UNCHANGED <<now, user_data, delivered, reacted,
                       profile_conversation, reprofile_conversation>>

\* variant: only the pending fields are popped
cancel_profile_KeepsSnapshot(u, ev) ==
    /\ ev \in {TextEv(Plain(CANCEL_BUTTON)), CommandEv("/cancel")}
    /\ Handled(u, ev, "cancel_profile")
    /\ SetData(u, PopAll(user_data[u], PendingKeys))
    /\ Returned(Conv(u, ev), u, END)
    /\ Ok
    /\ UNCHANGED <<users, likes, now, actions_keyboard, delivered, reacted>>

cancel_profile(u, ev) ==
    /\ ev \in {TextEv(Plain(CANCEL_BUTTON)), CommandEv("/cancel")}
    /\ Handled(u, ev, "cancel_profile")
    /\ SetData(u, PopAll(user_data[u], SessionKeys))
    /\ Returned(Conv(u, ev), u, END)
    /\ Ok
    /\ UNCHANGED <<users, likes, now, actions_keyboard, delivered, reacted>>

restart_profile(u) ==
    LET ev == CommandEv("/reset")
    IN  /\ Handled(u, ev, "restart_profile")
        /\ SetStore(reset_profile(DB, u))
        /\ SetData(u, PopAll(user_data[u], SessionKeys))
        /\ Returned(Conv(u, ev), u, ASK_NAME)
        /\ Ok
        /\ UNCHANGED <<now, actions_keyboard, delivered, reacted>>

\* _store_profile_context: the session seeded from the stored profile, or
\* the user_data unchanged when there is no completed profile
store_profile_context(db, u, ud) ==
    LET profile == get_user(db, u)
        existing_photos == extract_photo_refs(profile)
        seeded == Put(Put(ud, "profile_previous",
                          [name |-> profile[1].display_name,
                           age |-> profile[1].age,
                           gender |-> profile[1].gender,
                           preference |-> profile[1].preferred_gender,
                           photos |-> existing_photos,
                           bio |-> profile[1].bio]),
                      "profile_photos", existing_photos)
    IN  IF ~ensure_profile(db, u) THEN ud
        ELSE Put(PopAll(seeded, {"profile_name", "profile_age", "profile_gender",
                                 "profile_preference"}),
                 "editing_profile", TRUE)

edit_profile_message(u) ==
    LET ev == TextEv(Plain(EDIT_TEXT))
    IN  /\ Handled(u, ev, "edit_profile_message")
        /\ SetData(u, store_profile_context(DB, u, user_data[u]))
        /\ Returned(Conv(u, ev), u, IF ensure_profile(DB, u) THEN ASK_NAME ELSE END)
        /\ Ok
        /\ UNCHANGED <<users, likes, now, actions_keyboard, delivered, reacted>>

edit_profile_callback(u) ==
    LET ev == CallbackEv("edit_profile")
    IN  /\ actions_keyboard[u]
        /\ Handled(u, ev, "edit_profile_callback")
        /\ SetData(u, store_profile_context(DB, u, user_data[u]))
        /\ Returned(Conv(u, ev), u, IF ensure_profile(DB, u) THEN ASK_NAME ELSE END)
        /\ Ok
        /\ UNCHANGED <<users, likes, now, actions_keyboard, delivered, reacted>>

delete_profile_callback(u) ==
    LET ev == CallbackEv("delete_profile")
    IN  /\ actions_keyboard[u]
        /\ Handled(u, ev, "delete_profile_callback")
        /\ SetStore(delete_user(DB, u))
        /\ SetData(u, PopAll(user_data[u], SessionKeys))
        /\ Returned(Conv(u, ev), u, END)
        /\ Ok
        /\ UNCHANGED <<now, actions_keyboard, delivered, reacted>>

reset_profile_callback(u) ==
    LET ev == CallbackEv("reset_profile")
    IN  /\ actions_keyboard[u]
        /\ Handled(u, ev, "reset_profile_callback")
        /\ SetStore(reset_profile(DB, u))
        /\ SetData(u, PopAll(user_data[u], PendingKeys))
        /\ Returned(Conv(u, ev), u, ASK_NAME)
        /\ Ok
        /\ UNCHANGED <<now, actions_keyboard, delivered, reacted>>

\* -------------------------------------------------- browsing and matches
\* send_next_profile: the user_data after the call, for the row r the query
\* gave (None when it gave none)
\* variant: the pointer is left alone when the query gave no row
send_next_profile_KeepsPointer(u, ud, r) ==
    IF r = None THEN ud
    ELSE Put(ud, "current_candidate", r[1])

send_next_profile(u, ud, r) ==
    IF r = None THEN Pop(ud, "current_candidate")
    ELSE Put(ud, "current_candidate", r[1])

\* viewer["gender"] if viewer else None, viewer["preferred_gender"] if viewer else None
NextProfiles(db, u) ==
    LET viewer == get_user(db, u)
    IN  get_next_profile(db, u,
                         IF viewer # None THEN viewer[1].gender ELSE None,
                         IF viewer # None THEN viewer[1].preferred_gender ELSE None)

\* send_next_profile shows the candidate's card with reply_photo and
\* reply_text, which swallow nothing; once the first message is sent
\* photos_updated is set and the refs are written back through
\* update_photo_refs.
ShowRaises(db, r) ==
    /\ r # None
    /\ LET photos == extract_photo_refs(get_user(db, r[1]))
           pass == card_pass(photos, FetchOk, SendOk, FALSE)
       IN  \/ pass.raised
           \/ /\ 1 \in pass.delivered \/ pass.hydrated # {}
              /\ update_photo_refs(db, r[1], pass.refs).raised

Bump(dl, to, about) == [dl EXCEPT ![to][about] = @ + 1]

\* variant: only user_a is sent the notification
notify_match_OneSided(db, user_a, user_b, o, dl) ==
    LET d1 == IF o[1] = "ok" THEN Bump(dl, user_a, user_b) ELSE dl
    IN  IF get_profile_text(db, user_a) = None \/ get_profile_text(db, user_b) = None
        THEN [delivered |-> dl, raised |-> FALSE, sent |-> FALSE]
        ELSE IF o[1] = "TelegramError"
        THEN [delivered |-> dl, raised |-> TRUE, sent |-> TRUE]
        ELSE [delivered |-> d1,
              raised |-> (o[3] = "TelegramError" \/ o[4] = "TelegramError"),
              sent |-> TRUE]

\* notify_match(user_a, user_b, context) for profiles without stored media:
\* o[1], o[2] are the outcomes of the two notification sends (to user_a, then
\* to user_b), o[3], o[4] those of the two follow-up keyboard messages.
\* _safe_send_message swallows BadRequest only; any other TelegramError
\* leaves notify_match and the handler that called it.
notify_match(db, user_a, user_b, o, dl) ==
    LET d1 == IF o[1] = "ok" THEN Bump(dl, user_a, user_b) ELSE dl
        d2 == IF o[2] = "ok" THEN Bump(d1, user_b, user_a) ELSE d1
    IN  IF get_user(db, user_a) = None \/ get_user(db, user_b) = None
        THEN [delivered |-> dl, raised |-> FALSE, sent |-> FALSE]
        ELSE IF get_profile_text(db, user_a) = None \/ get_profile_text(db, user_b) = None
        THEN [delivered |-> dl, raised |-> FALSE, sent |-> FALSE]
        ELSE IF o[1] = "TelegramError"
        THEN [delivered |-> dl, raised |-> TRUE, sent |-> TRUE]
        ELSE IF o[2] = "TelegramError"
        THEN [delivered |-> d1, raised |-> TRUE, sent |-> TRUE]
        ELSE [delivered |-> d2,
              raised |-> (o[3] = "TelegramError" \/ o[4] = "TelegramError"),
              sent |-> TRUE]

AllOk == [i \in 1..4 |-> "ok"]

browse_profiles(u, r) ==
    LET ev == TextEv(Plain(BROWSE_TEXT))
    IN  /\ Handled(u, ev, "browse_profiles")
        /\ IF ~ensure_profile(DB, u)
           THEN r = None /\ Ok /\ UNCHANGED user_data
           ELSE /\ r \in NextProfiles(DB, u)
                /\ SetData(u, send_next_profile(u, user_data[u], r))
                /\ IF ShowRaises(DB, r) THEN Raise ELSE Ok
        /\ UNCHANGED <<users, likes, now, actions_keyboard, delivered, reacted,
                       profile_conversation, reprofile_conversation>>

handle_like(u, o, r) ==
    LET ev == TextEv(Plain(LIKE_BUTTON))
        candidate_id == Get(user_data[u], "current_candidate", 0)
        db == record_reaction(DB, u, candidate_id, "like")
        mutual == has_mutual_like(db, u, candidate_id)
        notified == IF mutual
                    THEN notify_match(db, u, candidate_id, o, delivered)
                    ELSE [delivered |-> delivered, raised |-> FALSE, sent |-> FALSE]
    IN  /\ Handled(u, ev, "handle_like")
        /\ IF candidate_id = 0
           THEN /\ o = AllOk /\ r = None /\ Ok
                /\ UNCHANGED <<users, likes, user_data, delivered, reacted>>
           ELSE /\ (~notified.sent => o = AllOk)
                /\ \A x, y \in Users : notified.delivered[x][y] <= MaxNotify
                /\ SetStore(db)
                /\ reacted' = reacted \cup {<<u, candidate_id>>}
                /\ delivered' = notified.delivered
                /\ IF notified.raised
                   THEN r = None /\ Raise /\ UNCHANGED user_data
                   ELSE /\ r \in NextProfiles(db, u)
                        /\ SetData(u, send_next_profile(u, user_data[u], r))
                        /\ IF ShowRaises(db, r) THEN Raise ELSE Ok
        /\ UNCHANGED <<now, actions_keyboard, profile_conversation, reprofile_conversation>>

handle_skip(u, r) ==
    LET ev == TextEv(Plain(SKIP_BUTTON))
        candidate_id == Get(user_data[u], "current_candidate", 0)
        db == record_reaction(DB, u, candidate_id, "skip")
    IN  /\ Handled(u, ev, "handle_skip")
        /\ IF candidate_id = 0
           THEN /\ r = None /\ Ok
                /\ UNCHANGED <<users, likes, user_data, reacted>>
           ELSE /\ SetStore(db)
                /\ reacted' = reacted \cup {<<u, candidate_id>>}
                /\ r \in NextProfiles(db, u)
                /\ SetData(u, send_next_profile(u, user_data[u], r))
                /\ IF ShowRaises(db, r) THEN Raise ELSE Ok
        /\ UNCHANGED <<now, actions_keyboard, delivered,
                       profile_conversation, reprofile_conversation>>

back_to_menu(u) ==
    LET ev == TextEv(Plain(MENU_BUTTON))
    IN  /\ Handled(u, ev, "back_to_menu")
        /\ SetData(u, Pop(user_data[u], "current_candidate"))
        /\ Ok
        /\ UNCHANGED <<users, likes, now, actions_keyboard, delivered, reacted,
                       profile_conversation, reprofile_conversation>>

unknown(u, ev) ==
    /\ Handled(u, ev, "unknown")
    /\ Ok
    /\ UNCHANGED <<users, likes, now, user_data, actions_keyboard, delivered, reacted,
                   profile_conversation, reprofile_conversation>>

\* CURRENT_TIMESTAMP moves on between updates
Tick ==
    /\ now < MaxTime
    /\ now' = now + 1
    /\ UNCHANGED <<users, likes, profile_conversation, reprofile_conversation,
                   user_data, actions_keyboard, delivered, uncaught, reacted, lockVars>>

\* ------------------------------------------------------------ the texts
KeepTexts(u) ==
    LET ud == user_data[u]
        name == PreviousGet(ud, "name")
        age == PreviousGet(ud, "age")
        gender == keep_gender_button(PreviousGet(ud, "gender"))
        preference == keep_preference_button(PreviousGet(ud, "preference"))
    IN  (IF Truthy(name) THEN {Plain(keep_name_button(name[1]))} ELSE {})
        \cup (IF age # None THEN {Plain(keep_age_button(age[1]))} ELSE {})
        \cup (IF gender # None THEN {Plain(gender[1])} ELSE {})
        \cup (IF preference # None THEN {Plain(preference[1])} ELSE {})

NameTexts(u) == {Plain(b) : b \in NameBodies} \cup {Padded("A")} \cup KeepTexts(u)
AgeTexts(u) == {Plain(b) : b \in AgeBodies}
               \cup {Plain("15"), Plain("101"), Plain("Ann"), Plain(SUPERSCRIPT_TWO)}
               \cup KeepTexts(u)
GenderTexts(u) == {Plain(b) : b \in DOMAIN GENDER_TEXT_TO_CODE} \cup {Plain("Ann")}
                  \cup KeepTexts(u)
PreferenceTexts(u) == {Plain(b) : b \in DOMAIN LOOKING_TEXT_TO_CODE} \cup {Plain("Ann")}
                      \cup KeepTexts(u)
BioTexts == {Plain(b) : b \in BioBodies} \cup {Padded("Ann")}
UnknownEvents == {TextEv(Plain("Ann")), CommandEv("/cancel")}

\* ------------------------------------------------------- specifications
NoSessions ==
    /\ profile_conversation = [u \in Users |-> END]
    /\ reprofile_conversation = [u \in Users |-> END]
    /\ user_data = [u \in Users |-> EmptyDict]
    /\ delivered = [u \in Users |-> [v \in Users |-> 0]]
    /\ uncaught = FALSE
    /\ reacted = {}
    /\ lock = 0
    /\ pc = [w \in Workers |-> Idle]

\* Spec: one user talks to a bot that starts on an empty database; the
\* profile form, its entry points and the profile card's inline buttons.
Init ==
    /\ users = EmptyDict
    /\ likes = {}
    /\ now = 0
    /\ actions_keyboard = [u \in Users |-> FALSE]
    /\ NoSessions

InState(u, state) ==
    profile_conversation[u] = state \/ reprofile_conversation[u] = state

Next ==
    \/ Tick
    \/ \E u \in FormChatters : start(u)
    \/ \E u \in FormChatters : InState(u, ASK_NAME) /\ \E t \in NameTexts(u) : ask_name(u, t)
    \/ \E u \in FormChatters : InState(u, ASK_AGE) /\ \E t \in AgeTexts(u) : ask_age(u, t)
    \/ \E u \in FormChatters : InState(u, ASK_GENDER)
                               /\ \E t \in GenderTexts(u) : ask_gender(u, t)
    \/ \E u \in FormChatters : InState(u, ASK_LOOKING_FOR)
                               /\ \E t \in PreferenceTexts(u) : ask_preference(u, t)
    \/ \E u \in FormChatters : \E f \in PhotoIds : receive_photo(u, f)
    \/ \E u \in FormChatters : \E m \in TelegramProfileMedia(u) : skip_photo(u, m)
    \/ \E u \in FormChatters : invalid_photo_text(u, Plain("Ann"))
    \/ \E u \in FormChatters : InState(u, ASK_BIO)
                               /\ \E t \in BioTexts : \E m \in TelegramProfileMedia(u) :
                                     finish_profile(u, t, m)
    \/ \E u \in FormChatters : show_profile(u, FetchOk, SendOk)
    \/ \E u \in FormChatters :
          \E ev \in {TextEv(Plain(CANCEL_BUTTON)), CommandEv("/cancel")} : cancel_profile(u, ev)
    \/ \E u \in FormChatters : restart_profile(u)
    \/ \E u \in FormChatters : edit_profile_message(u)
    \/ \E u \in FormChatters : edit_profile_callback(u)
    \/ \E u \in FormChatters : delete_profile_callback(u)
    \/ \E u \in FormChatters : reset_profile_callback(u)
    \/ \E u \in FormChatters : \E ev \in UnknownEvents : unknown(u, ev)

Spec == Init /\ [][Next]_vars

\* The stored profile of a user who went through the form.
Onboarded(u) ==
    [username |-> UsernameOf(u), display_name |-> Some("Ann"), age |-> Some(17),
     gender |-> Some("male"), preferred_gender |-> Some("male"),
     bio |-> Some("Love hiking"), photo_urls |-> None, photo_file_id |-> None,
     profile_completed |-> 1, updated_at |-> 0]

Results == {None} \cup {Some(v) : v \in Users}

\* outcome vectors up to what notify_match can tell apart: nothing is sent
\* after a send that raised
NotifyOutcomes ==
    {o \in [1..4 -> SendOutcomes] :
        /\ \A i \in 1..3 : o[i] = "TelegramError" => \A j \in (i + 1)..4 : o[j] = "ok"
        /\ o[3] # "BadRequest" /\ o[4] # "BadRequest"}

\* the handlers behind the browsing keyboard and the card's inline buttons
Browsing(chatters) ==
    \/ Tick
    \/ \E u \in chatters : /\ Handled(u, TextEv(Plain(BROWSE_TEXT)), "browse_profiles")
                           /\ \E r \in Results : browse_profiles(u, r)
    \/ \E u \in chatters : /\ Handled(u, TextEv(Plain(LIKE_BUTTON)), "handle_like")
                           /\ \E o \in NotifyOutcomes : \E r \in Results :
                                 handle_like(u, o, r)
    \/ \E u \in chatters : /\ Handled(u, TextEv(Plain(SKIP_BUTTON)), "handle_skip")
                           /\ \E r \in Results : handle_skip(u, r)
    \/ \E u \in chatters : back_to_menu(u)
    \/ \E u \in chatters : delete_profile_callback(u)
    \/ \E u \in chatters : reset_profile_callback(u)

\* SpecMatch: two users who have filled in their profiles (and so hold a
\* profile card with its inline buttons) browse, react, reset and delete.
InitMatch ==
    /\ users = [u \in MatchChatters |-> Onboarded(u)]
    /\ likes = {}
    /\ now = 0
    /\ actions_keyboard = [u \in Users |-> u \in MatchChatters]
    /\ NoSessions

NextMatch == Browsing(MatchChatters)

SpecMatch == InitMatch /\ [][NextMatch]_vars

\* SpecBrowse: one such user browses, reacts, resets or deletes the profile
\* and fills the form in again; the other stored user never acts but may
\* have liked the first before.
InitBrowse ==
    /\ users = [u \in MatchChatters |-> Onboarded(u)]
    /\ likes \in {{}, {[from_user_id |-> 2, to_user_id |-> 1, status |-> "like", created_at |-> 0]}}
    /\ now = 0
    /\ actions_keyboard = [u \in Users |-> u \in BrowseChatters]
    /\ NoSessions

Reonboarding(chatters) ==
    \/ \E u \in chatters : start(u)
    \/ \E u \in chatters : restart_profile(u)
    \/ \E u \in chatters : InState(u, ASK_NAME) /\ ask_name(u, Plain("Ann"))
    \/ \E u \in chatters : InState(u, ASK_AGE) /\ ask_age(u, Plain("17"))
    \/ \E u \in chatters : InState(u, ASK_GENDER) /\ ask_gender(u, Plain("Ya paren'"))
    \/ \E u \in chatters : InState(u, ASK_LOOKING_FOR) /\ ask_preference(u, Plain("Ishchu druga"))
    \/ \E u \in chatters : skip_photo(u, <<>>)
    \/ \E u \in chatters : InState(u, ASK_BIO) /\ finish_profile(u, Plain("Love hiking"), <<>>)

NextBrowse == Browsing(BrowseChatters) \/ Reonboarding(BrowseChatters)

SpecBrowse == InitBrowse /\ [][NextBrowse]_vars

\* SpecQuery: the candidate query over stored data. The store holds three
\* rows as upsert_user and set_profile leave them (an incomplete row has no
\* fields; a completed row has a gender and a preference out of the two
\* codes or none) and reactions the viewer recorded; the viewer browses and
\* skips.
QueryRows ==
    {NewRow(None)} \cup
    {[Onboarded(1) EXCEPT !.username = None, !.gender = g,
                          !.preferred_gender = p, !.updated_at = t] :
        g \in {None, Some("male"), Some("female")},
        p \in {None, Some("male"), Some("female")}, t \in Times}

InitQuery ==
    /\ now = 0
    /\ users \in [Users -> QueryRows]
    /\ \A u \in BrowseChatters : users[u].updated_at = 0
    /\ likes \in SUBSET {[from_user_id |-> 1, to_user_id |-> c, status |-> "like",
                          created_at |-> 0] : c \in Users \ BrowseChatters}
    /\ actions_keyboard = [u \in Users |-> FALSE]
    /\ NoSessions

NextQuery ==
    \/ \E u \in BrowseChatters : \E r \in Results : browse_profiles(u, r)
    \/ \E u \in BrowseChatters : \E r \in Results : handle_skip(u, r)

SpecQuery == InitQuery /\ [][NextQuery]_vars

\* SpecValidate: one user fills the form in, first and again, typing the
\* texts on either side of each validation threshold.
ValidateNames == {Plain("A"), Plain("Al"), Padded("A"), Padded("Al")}
ValidateAges == {Plain("15"), Plain("16"), Plain("100"), Plain("101"), Padded("16"),
                 Plain(SUPERSCRIPT_TWO), Plain("Ann")}
ValidateBios == {Plain("Love"), Plain("Loved"), Padded("Love"), Padded("Loved")}

NextValidate ==
    \/ Tick
    \/ \E u \in FormChatters : start(u)
    \/ \E u \in FormChatters : restart_profile(u)
    \/ \E u \in FormChatters : edit_profile_message(u)
    \/ \E u \in FormChatters : InState(u, ASK_NAME)
                               /\ \E t \in ValidateNames \cup KeepTexts(u) : ask_name(u, t)
    \/ \E u \in FormChatters : InState(u, ASK_AGE)
                               /\ \E t \in ValidateAges \cup KeepTexts(u) : ask_age(u, t)
    \/ \E u \in FormChatters : InState(u, ASK_GENDER) /\ ask_gender(u, Plain("Ya paren'"))
    \/ \E u \in FormChatters : InState(u, ASK_LOOKING_FOR)
                               /\ ask_preference(u, Plain("Ishchu druga"))
    \/ \E u \in FormChatters : skip_photo(u, <<>>)
    \/ \E u \in FormChatters : InState(u, ASK_BIO)
                               /\ \E t \in ValidateBios : finish_profile(u, t, <<>>)

SpecValidate == Init /\ [][NextValidate]_vars

\* SpecMedia: one stored row and a pending sequence of 0 to 3 media refs,
\* handed to the two store calls that write media.
MediaRefs ==
    {PhotoRef("f1"),
     [file_id |-> Some("f2"), url |-> None, type |-> Some("video")],
     [file_id |-> None, url |-> Some("https://host/p.jpg"), type |-> Some("photo")]}

MediaSeqs == UNION {[1..n -> MediaRefs] : n \in 0..3}

InitMedia ==
    /\ now = 0
    /\ users \in {[u \in FormChatters |-> r] : r \in {NewRow(None), Onboarded(1)}}
    /\ likes = {}
    /\ profile_conversation = [u \in Users |-> END]
    /\ reprofile_conversation = [u \in Users |-> END]
    /\ user_data \in {[u \in Users |-> IF u \in FormChatters
                                     THEN [profile_photos |-> refs] ELSE EmptyDict] :
                        refs \in MediaSeqs}
    /\ actions_keyboard = [u \in Users |-> FALSE]
    /\ delivered = [a \in Users |-> [b \in Users |-> 0]]
    /\ uncaught = FALSE
    /\ reacted = {}
    /\ lock = 0
    /\ pc = [w \in Workers |-> Idle]

\* db.set_profile(user.id, name, age, bio, gender, preference, photos, username)
set_profile_call(u) ==
    LET saved == set_profile(DB, u, Some("Ann"), Some(17), Some("Love hiking"),
                             Some("male"), Some("male"),
                             Get(user_data[u], "profile_photos", <<>>), UsernameOf(u))
    IN  /\ users' = saved.users
        /\ likes' = saved.likes
        /\ IF saved.raised THEN Raise ELSE Ok
        /\ UNCHANGED <<now, chatVars, reacted>>

\* db.update_photo_refs(user.id, list(photos))
update_photo_refs_call(u) ==
    LET saved == update_photo_refs(DB, u, Get(user_data[u], "profile_photos", <<>>))
    IN  /\ users' = saved.users
        /\ likes' = saved.likes
        /\ IF saved.raised THEN Raise ELSE Ok
        /\ UNCHANGED <<now, chatVars, reacted>>

NextMedia ==
    \/ \E u \in FormChatters : set_profile_call(u)
    \/ \E u \in FormChatters : update_photo_refs_call(u)

SpecMedia == InitMedia /\ [][NextMedia]_vars

\* SpecRender: two completed profiles in a database file that holds media
\* (the JSON list photo_urls that _deserialize_photo_urls reads), 0 to 4
\* refs each: with a file_id, with a url only, photo and video. The first
\* user opens the own profile card and browses; every GET and every send
\* may succeed or fail.
RenderSeqs == UNION {[1..n -> MediaRefs] : n \in 0..4}

\* the outcomes drawn for a pass: one per place among the first three
RenderFetches == {f \in [Slots -> FetchOutcomes] : f[4] = "ok"}
RenderSends == {o \in [Slots -> SendOutcomes] : o[4] = "ok"}

WithMedia(row, refs) ==
    [row EXCEPT !.photo_urls = IF refs = <<>> THEN None ELSE Some(refs)]

InitRender ==
    /\ now = 0
    /\ users \in {[u \in MatchChatters |-> WithMedia(Onboarded(u), refs)] :
                    refs \in RenderSeqs}
    /\ likes = {}
    /\ actions_keyboard = [u \in Users |-> FALSE]
    /\ NoSessions

NextRender ==
    \/ \E u \in BrowseChatters : \E fetch \in RenderFetches :
          \E send \in RenderSends : show_profile(u, fetch, send)
    \/ \E u \in BrowseChatters : \E r \in Results : browse_profiles(u, r)

SpecRender == InitRender /\ [][NextRender]_vars

\* SpecStore: the store operations behind the reset and delete buttons over
\* stored data. Three rows, each as upsert_user left it, as set_profile left
\* it, or holding media, and any set of likes between the three; two users
\* reset and delete their profiles.
StoreRows(u) ==
    {NewRow(UsernameOf(u)), Onboarded(u), WithMedia(Onboarded(u), <<PhotoRef("f1")>>)}

StoreLikes ==
    {[from_user_id |-> a, to_user_id |-> b, status |-> "like", created_at |-> 0] :
        a \in Users, b \in Users} \ 
    {[from_user_id |-> a, to_user_id |-> a, status |-> "like", created_at |-> 0] :
        a \in Users}

InitStore ==
    /\ now = 0
    /\ users \in {f \in [Users -> UNION {StoreRows(u) : u \in Users}] :
                    \A u \in Users : f[u] \in StoreRows(u)}
    /\ likes \in SUBSET StoreLikes
    /\ actions_keyboard = [u \in Users |-> u \in MatchChatters]
    /\ NoSessions

NextStore ==
    \/ Tick
    \/ \E u \in MatchChatters : reset_profile_callback(u)
    \/ \E u \in MatchChatters : restart_profile(u)
    \/ \E u \in MatchChatters : delete_profile_callback(u)

SpecStore == InitStore /\ [][NextStore]_vars

\* ------------------------------------------- the store lock, step by step
\* SpecLock: two handlers at a time, each cut at its awaits, at the entry and
\* exit of every with self._lock block and at every SQL statement inside
\* one. The statements work on the one shared connection, so what a
\* statement wrote is there for the next statement of anyone.
NetworkKinds == {"answer", "fetch", "send"}
StatementKinds ==
    {"select_user", "select_next", "update_users", "delete_authored",
     "delete_likes", "delete_row", "update_refs", "commit"}
LocalKinds ==
    {"ensure", "card", "set_candidate", "pop_candidate", "pop_pending",
     "pop_session", "normalize"}
NetOutcomes == {"ok", "error"}

\* variant: the media fetch is issued inside a with self._lock block
Block_FetchUnderLock(block) ==
    CASE block = "reset_profile_callback" ->
            <<"answer", "resume", "acquire", "update_users", "delete_authored",
              "commit", "release", "pop_pending", "send", "resume", "return">>
      [] block = "delete_profile_callback" ->
            <<"answer", "resume", "acquire", "delete_likes", "delete_row",
              "commit", "release", "pop_session", "send", "resume", "return">>
      [] block = "browse_profiles" ->
            <<"acquire", "select_user", "release", "ensure",
              "acquire", "select_user", "release",
              "acquire", "select_next", "release", "card">>
      [] block = "no_profile" -> <<"send", "resume", "return">>
      [] block = "no_candidate" -> <<"send", "resume", "pop_candidate", "return">>
      [] block = "card_text" -> <<"set_candidate", "send", "resume", "return">>
      [] block = "card_handle" -> <<"set_candidate", "send", "resume", "normalize">>
      [] block = "card_url" ->
            <<"set_candidate", "acquire", "fetch", "resume", "release",
              "send", "resume", "normalize">>
      [] block = "update_photo_refs" ->
            <<"acquire", "update_refs", "commit", "release", "return">>

\* the steps of a handler, in the order of its statements
Block(block) ==
    CASE block = "reset_profile_callback" ->
            <<"answer", "resume", "acquire", "update_users", "delete_authored",
              "commit", "release", "pop_pending", "send", "resume", "return">>
      [] block = "delete_profile_callback" ->
            <<"answer", "resume", "acquire", "delete_likes", "delete_row",
              "commit", "release", "pop_session", "send", "resume", "return">>
      [] block = "browse_profiles" ->
            <<"acquire", "select_user", "release", "ensure",
              "acquire", "select_user", "release",
              "acquire", "select_next", "release", "card">>
      [] block = "no_profile" -> <<"send", "resume", "return">>
      [] block = "no_candidate" -> <<"send", "resume", "pop_candidate", "return">>
      [] block = "card_text" -> <<"set_candidate", "send", "resume", "return">>
      [] block = "card_handle" -> <<"set_candidate", "send", "resume", "normalize">>
      [] block = "card_url" ->
            <<"set_candidate", "fetch", "resume", "send", "resume", "normalize">>
      [] block = "update_photo_refs" ->
            <<"acquire", "update_refs", "commit", "release", "return">>

Kind(w) == IF pc[w].handler = "idle" THEN "idle" ELSE Block(pc[w].block)[pc[w].at]

\* the network call w issued has not completed
InFlight(w) == Kind(w) = "resume"
\* w is between the entry and the exit of a with self._lock block
Inside(w) == Kind(w) \in StatementKinds \cup {"release"}
Waiting(w) == Kind(w) = "acquire"

Advance(w) == pc' = [pc EXCEPT ![w].at = @ + 1]
Goto(w, block) == pc' = [pc EXCEPT ![w].block = block, ![w].at = 1]
Finish(w, raised) == pc' = [pc EXCEPT ![w] = Idle] /\ uncaught' = raised

HandlerEv(h) ==
    CASE h = "reset_profile_callback" -> CallbackEv("reset_profile")
      [] h = "delete_profile_callback" -> CallbackEv("delete_profile")
      [] h = "browse_profiles" -> TextEv(Plain(BROWSE_TEXT))

LockHandlers == {"reset_profile_callback", "delete_profile_callback", "browse_profiles"}

\* the dispatcher hands w's update to its handler
Call(w, h) ==
    /\ pc[w] = Idle
    /\ h \in {"reset_profile_callback", "delete_profile_callback"} => actions_keyboard[w]
    /\ Handled(w, HandlerEv(h), h)
    /\ pc' = [pc EXCEPT ![w] = [handler |-> h, block |-> h, at |-> 1,
                                 viewer |-> None, candidate |-> None,
                                 photos |-> <<>>]]
    /\ UNCHANGED <<users, likes, now, profile_conversation, reprofile_conversation,
                   user_data, actions_keyboard, delivered, uncaught, reacted, lock>>

\* variant: the with block is entered without waiting for the lock
acquire_NoWait(w) ==
    /\ Kind(w) = "acquire"
    /\ lock' = w
    /\ Advance(w)
    /\ UNCHANGED <<users, likes, now, profile_conversation, reprofile_conversation,
                   user_data, actions_keyboard, delivered, uncaught, reacted>>

\* with self._lock: entry
acquire(w) ==
    /\ Kind(w) = "acquire"
    /\ lock = 0
    /\ lock' = w
    /\ Advance(w)
    /\ UNCHANGED <<users, likes, now, profile_conversation, reprofile_conversation,
                   user_data, actions_keyboard, delivered, uncaught, reacted>>

\* with self._lock: exit
release(w) ==
    /\ Kind(w) = "release"
    /\ lock' = 0
    /\ Advance(w)
    /\ UNCHANGED <<users, likes, now, profile_conversation, reprofile_conversation,
                   user_data, actions_keyboard, delivered, uncaught, reacted>>

\* one cur.execute / fetch / commit of a store method
statement(w, r) ==
    /\ Kind(w) \in StatementKinds
    /\ CASE Kind(w) = "select_user" ->
              /\ r = None
              /\ pc' = [pc EXCEPT ![w].at = @ + 1, ![w].viewer = get_user(DB, w)]
              /\ UNCHANGED storeVars
         [] Kind(w) = "select_next" ->
              /\ r \in get_next_profile(DB, w,
                        IF pc[w].viewer # None THEN pc[w].viewer[1].gender ELSE None,
                        IF pc[w].viewer # None THEN pc[w].viewer[1].preferred_gender
                        ELSE None)
              /\ pc' = [pc EXCEPT ![w].at = @ + 1, ![w].candidate = r,
                                  ![w].photos = IF r = None THEN <<>>
                                                ELSE extract_photo_refs(get_user(DB, r[1]))]
              /\ UNCHANGED storeVars
         [] Kind(w) = "update_users" ->
              /\ r = None
              /\ users' = reset_profile(DB, w).users
              /\ UNCHANGED likes
              /\ Advance(w)
         [] Kind(w) = "delete_authored" ->
              /\ r = None
              /\ likes' = reset_profile(DB, w).likes
              /\ UNCHANGED users
              /\ Advance(w)
         [] Kind(w) = "delete_likes" ->
              /\ r = None
              /\ likes' = delete_user(DB, w).likes
              /\ UNCHANGED users
              /\ Advance(w)
         [] Kind(w) = "delete_row" ->
              /\ r = None
              /\ users' = delete_user(DB, w).users
              /\ UNCHANGED likes
              /\ Advance(w)
         [] Kind(w) = "update_refs" ->
              /\ r = None
              /\ SetStore(update_photo_refs(DB, pc[w].candidate[1], pc[w].photos))
              /\ Advance(w)
         [] Kind(w) = "commit" ->
              /\ r = None
              /\ UNCHANGED storeVars
              /\ Advance(w)
    /\ UNCHANGED <<now, profile_conversation, reprofile_conversation, user_data,
                   actions_keyboard, delivered, uncaught, reacted, lock>>

\* await query.answer(), await client.get(url), await reply_*/send_*: the
\* call is issued and the handler is suspended
issue(w) ==
    /\ Kind(w) \in NetworkKinds
    /\ Advance(w)
    /\ UNCHANGED <<users, likes, now, profile_conversation, reprofile_conversation,
                   user_data, actions_keyboard, delivered, uncaught, reacted, lock>>

\* the awaited call completes; none of these calls is wrapped, so a failure
\* leaves the handler
resume(w, o) ==
    /\ Kind(w) = "resume"
    /\ IF o = "ok" THEN Advance(w) /\ UNCHANGED uncaught ELSE Finish(w, TRUE)
    /\ UNCHANGED <<users, likes, now, profile_conversation, reprofile_conversation,
                   user_data, actions_keyboard, delivered, reacted, lock>>

\* the statements of the handler that touch neither the store nor the network
local(w) ==
    /\ Kind(w) \in LocalKinds
    /\ CASE Kind(w) = "ensure" ->
              /\ IF pc[w].viewer # None /\ pc[w].viewer[1].profile_completed = 1
                 THEN Advance(w) ELSE Goto(w, "no_profile")
              /\ UNCHANGED <<user_data, uncaught>>
         [] Kind(w) = "card" ->
              /\ LET first == IF pc[w].photos = <<>> THEN None
                              ELSE Some(resolve_media_input(pc[w].photos[1], "ok"))
                 IN  Goto(w, IF pc[w].candidate = None THEN "no_candidate"
                             ELSE IF first = None THEN "card_text"
                             ELSE IF first[1].network THEN "card_url"
                             ELSE IF first[1].input # None THEN "card_handle"
                             ELSE "card_text")
              /\ UNCHANGED <<user_data, uncaught>>
         [] Kind(w) \in {"set_candidate", "pop_candidate"} ->
              /\ SetData(w, send_next_profile(w, user_data[w], pc[w].candidate))
              /\ Advance(w)
              /\ UNCHANGED uncaught
         [] Kind(w) = "pop_pending" ->
              /\ SetData(w, PopAll(user_data[w], PendingKeys))
              /\ Advance(w)
              /\ UNCHANGED uncaught
         [] Kind(w) = "pop_session" ->
              /\ SetData(w, PopAll(user_data[w], SessionKeys))
              /\ Advance(w)
              /\ UNCHANGED uncaught
         [] Kind(w) = "normalize" ->
              /\ IF update_photo_refs(DB, pc[w].candidate[1], pc[w].photos).raised
                 THEN Finish(w, TRUE)
                 ELSE Goto(w, "update_photo_refs") /\ UNCHANGED uncaught
              /\ UNCHANGED user_data
    /\ UNCHANGED <<users, likes, now, profile_conversation, reprofile_conversation,
                   actions_keyboard, delivered, reacted, lock>>

\* the handler returns its next conversation state to the dispatcher
return(w) ==
    /\ Kind(w) = "return"
    /\ Finish(w, FALSE)
    /\ CASE pc[w].handler = "reset_profile_callback" ->
              Returned(Conv(w, HandlerEv(pc[w].handler)), w, ASK_NAME)
         [] pc[w].handler = "delete_profile_callback" ->
              Returned(Conv(w, HandlerEv(pc[w].handler)), w, END)
         [] OTHER -> UNCHANGED <<profile_conversation, reprofile_conversation>>
    /\ UNCHANGED <<users, likes, now, user_data, actions_keyboard, delivered,
                   reacted, lock>>

UrlRef == [file_id |-> None, url |-> Some("https://host/p.jpg"), type |-> Some("photo")]

LockLikes ==
    {[from_user_id |-> a, to_user_id |-> b, status |-> "like", created_at |-> 0] :
        a \in Workers, b \in Users} \ 
    {[from_user_id |-> a, to_user_id |-> a, status |-> "like", created_at |-> 0] :
        a \in Workers}

\* two users with finished profiles, a third whose profile holds no media,
\* a handle or a link, and any likes the two have given
InitLock ==
    /\ now = 0
    /\ users \in {[u \in Users |-> IF u \in Workers THEN Onboarded(u)
                                   ELSE WithMedia(Onboarded(u), refs)] :
                    refs \in {<<>>, <<PhotoRef("f1")>>, <<UrlRef>>}}
    /\ likes \in SUBSET LockLikes
    /\ actions_keyboard = [u \in Users |-> u \in Workers]
    /\ NoSessions

NextLock ==
    \/ \E w \in Workers : \E h \in LockHandlers : Call(w, h)
    \/ \E w \in Workers : acquire(w)
    \/ \E w \in Workers : release(w)
    \/ \E w \in Workers : \E r \in Results : statement(w, r)
    \/ \E w \in Workers : issue(w)
    \/ \E w \in Workers : \E o \in NetOutcomes : resume(w, o)
    \/ \E w \in Workers : local(w)
    \/ \E w \in Workers : return(w)

SpecLock == InitLock /\ [][NextLock]_vars

\* SpecKeep: one user fills the form in, first and again, and types texts
\* shaped like the keep-previous captions whether or not a snapshot offers
\* them.
SentinelTexts ==
    {Plain(keep_name_button("Ann")), Plain(keep_age_button(17)),
     Plain("Ostavit' pol: " \o format_gender(Some("male"))),
     Plain("Ostavit' pol: " \o format_gender(None)),
     Plain("Ostavit' poisk: " \o format_preference(Some("male"))),
     Plain("Ostavit' poisk: " \o format_preference(None))}

NextKeep ==
    \/ \E u \in FormChatters : start(u)
    \/ \E u \in FormChatters : edit_profile_message(u)
    \/ \E u \in FormChatters : show_profile(u, FetchOk, SendOk)
    \/ \E u \in FormChatters : reset_profile_callback(u)
    \/ \E u \in FormChatters : InState(u, ASK_NAME)
          /\ \E t \in {Plain("Ann")} \cup SentinelTexts : ask_name(u, t)
    \/ \E u \in FormChatters : InState(u, ASK_AGE)
          /\ \E t \in {Plain("17")} \cup SentinelTexts : ask_age(u, t)
    \/ \E u \in FormChatters : InState(u, ASK_GENDER)
          /\ \E t \in {Plain("Ya paren'")} \cup SentinelTexts : ask_gender(u, t)
    \/ \E u \in FormChatters : InState(u, ASK_LOOKING_FOR)
          /\ \E t \in {Plain("Ishchu druga")} \cup SentinelTexts : ask_preference(u, t)
    \/ \E u \in FormChatters : skip_photo(u, <<>>)
    \/ \E u \in FormChatters : InState(u, ASK_BIO) /\ finish_profile(u, Plain("Love hiking"), <<>>)

SpecKeep == Init /\ [][NextKeep]_vars

\* SpecHydrate: user 1 browses, step by step as in SpecLock, and is shown
\* user 2, whose stored profile holds media; between any two steps of that
\* pass user 2 resets the profile and fills the form in again. User 2's
\* handlers are taken whole, at moments when the lock is free.
Hydrator == 1
Saver == 2

InitHydrate ==
    /\ now = 0
    /\ users \in {[u \in MatchChatters |-> IF u = Saver THEN WithMedia(Onboarded(u), refs)
                                           ELSE Onboarded(u)] :
                    refs \in {<<PhotoRef("f1")>>, <<UrlRef>>}}
    /\ likes = {}
    /\ actions_keyboard = [u \in Users |-> FALSE]
    /\ NoSessions

NextHydrate ==
    \/ Call(Hydrator, "browse_profiles")
    \/ acquire(Hydrator)
    \/ release(Hydrator)
    \/ \E r \in Results : statement(Hydrator, r)
    \/ issue(Hydrator)
    \/ resume(Hydrator, "ok")
    \/ local(Hydrator)
    \/ return(Hydrator)
    \/ lock = 0 /\ Reonboarding({Saver})

SpecHydrate == InitHydrate /\ [][NextHydrate]_vars

\* SpecRefs: update_photo_refs over stored data. User 1's row holds media,
\* the other two rows may, any of the three may have liked another, and the
\* call is handed a sequence of 0 to 3 refs.
InitRefs ==
    /\ now = 0
    /\ users \in {[u \in Users |-> IF u \in FormChatters \/ u \in withMedia
                                   THEN WithMedia(Onboarded(u), <<PhotoRef("f1")>>)
                                   ELSE Onboarded(u)] : withMedia \in SUBSET Users}
    /\ likes \in SUBSET {[from_user_id |-> a, to_user_id |-> b, status |-> "like",
                          created_at |-> 0] : a \in {2}, b \in {1, 3}}
    /\ profile_conversation = [u \in Users |-> END]
    /\ reprofile_conversation = [u \in Users |-> END]
    /\ user_data \in {[u \in Users |-> IF u \in FormChatters
                                     THEN [profile_photos |-> refs] ELSE EmptyDict] :
                        refs \in MediaSeqs}
    /\ actions_keyboard = [u \in Users |-> FALSE]
    /\ delivered = [a \in Users |-> [b \in Users |-> 0]]
    /\ uncaught = FALSE
    /\ reacted = {}
    /\ lock = 0
    /\ pc = [w \in Workers |-> Idle]

NextRefs ==
    \/ Tick
    \/ \E u \in FormChatters : update_photo_refs_call(u)

SpecRefs == InitRefs /\ [][NextRefs]_vars

\* SpecUpsert: /start over stored data. User 1 is unknown to the store, or
\* known under the username they had before, with a profile not yet filled
\* in, filled in, or filled in with media; the other two have profiles and
\* may have liked anyone.
OldUsername == Some("old")

UpsertRows ==
    {NewRow(OldUsername),
     [Onboarded(1) EXCEPT !.username = OldUsername],
     [WithMedia(Onboarded(1), <<PhotoRef("f1")>>) EXCEPT !.username = OldUsername]}

InitUpsert ==
    /\ now = 0
    /\ users \in {[u \in Users \ FormChatters |-> Onboarded(u)]}
                 \cup {[u \in Users |-> IF u \in FormChatters THEN row ELSE Onboarded(u)] :
                          row \in UpsertRows}
    /\ likes \in SUBSET {l \in StoreLikes : l.from_user_id \notin FormChatters}
    /\ actions_keyboard = [u \in Users |-> FALSE]
    /\ NoSessions

NextUpsert ==
    \/ Tick
    \/ \E u \in FormChatters : start(u)

SpecUpsert == InitUpsert /\ [][NextUpsert]_vars

\* SpecTerminate: a fixed set of three completed profiles; the other two
\* may have liked the viewer before; the viewer opens browsing and likes or
\* skips. Nobody resets, deletes or saves a profile.
InitTerminate ==
    /\ now = 0
    /\ users = [u \in Users |-> Onboarded(u)]
    /\ likes \in SUBSET {[from_user_id |-> a, to_user_id |-> b, status |-> "like",
                          created_at |-> 0] : a \in Users \ BrowseChatters,
                                              b \in BrowseChatters}
    /\ actions_keyboard = [u \in Users |-> FALSE]
    /\ NoSessions

NextTerminate ==
    \/ Tick
    \/ \E u \in BrowseChatters : \E r \in Results : browse_profiles(u, r)
    \/ \E u \in BrowseChatters : \E o \in NotifyOutcomes : \E r \in Results :
          handle_like(u, o, r)
    \/ \E u \in BrowseChatters : \E r \in Results : handle_skip(u, r)

SpecTerminate == InitTerminate /\ [][NextTerminate]_vars

TypeOK ==
    /\ DOMAIN users \subseteq Users
    /\ now \in Times
    /\ \A l \in likes : l.status \in {"like", "skip"} /\ l.created_at \in Times
    /\ \A u \in Users : profile_conversation[u] \in {END} \cup (ASK_NAME..ASK_BIO)
    /\ \A u \in Users : reprofile_conversation[u] \in {END} \cup (ASK_NAME..ASK_BIO)
    /\ \A u \in Users : DOMAIN user_data[u] \subseteq SessionKeys \cup {"current_candidate"}
    /\ uncaught \in BOOLEAN
    /\ lock \in {0} \cup Workers
    /\ \A w \in Workers : pc[w].at \in 0..11

\* no stored row holds media: set_profile raises on every non-empty list
NoStoredMedia ==
    \A u \in DOMAIN users : users[u].photo_urls = None /\ users[u].photo_file_id = None


\* ================================================================ claims
Codes == {None, Some("male"), Some("female")}
HasReaction(a, b) == \E l \in likes : l.from_user_id = a /\ l.to_user_id = b
StatusRow(a, b, status) ==
    \E l \in likes : l.from_user_id = a /\ l.to_user_id = b /\ l.status = status
Candidate(u) == Get(user_data[u], "current_candidate", 0)

\* C1 (as claimed): once a reaction from A to B has been recorded, no later
\* get_next_profile(A) returns B, whatever operations came in between.
C1_NeverShownAgain ==
    \A p \in reacted : Some(p[2]) \notin NextProfiles(DB, p[1])

\* C1 (amended): while the reaction row from A to B is stored,
\* get_next_profile(A) does not return B for any viewer arguments, and the
\* row stays stored until A resets or deletes the profile or B deletes it.
C1_RowExcludes ==
    \A l \in likes : \A g \in Codes, p \in Codes :
        Some(l.to_user_id) \notin get_next_profile(DB, l.from_user_id, g, p)

C1_RowKept ==
    \A a \in Users, b \in Users :
        (HasReaction(a, b) /\ ~HasReaction(a, b)')
            => \/ restart_profile(a)
               \/ reset_profile_callback(a)
               \/ delete_profile_callback(a)
               \/ delete_profile_callback(b)

C1_ExcludedWhileStored == []C1_RowExcludes /\ [][C1_RowKept]_vars

\* the viewer reacted to the only other completed profile, filled the form in
\* again without a reset, and the query now gives nothing
C1_Witness ==
    /\ HasReaction(1, 2)
    /\ ensure_profile(DB, 1) /\ ensure_profile(DB, 2)
    /\ users[1].updated_at > 0
    /\ NextProfiles(DB, 1) = {None}

\* C2: every stored profile with completed = true has a name of at least 2
\* characters, an age in [16,100], a bio of at least 5 characters and a
\* gender and a preference out of the two codes.
ValidProfile(row) ==
    /\ row.display_name # None /\ Len(row.display_name[1]) >= 2
    /\ row.age # None /\ row.age[1] >= 16 /\ row.age[1] <= 100
    /\ row.bio # None /\ Len(row.bio[1]) >= 5
    /\ row.gender \in {Some("male"), Some("female")}
    /\ row.preferred_gender \in {Some("male"), Some("female")}

C2_CompletedIsValid ==
    \A u \in DOMAIN users : users[u].profile_completed = 1 => ValidProfile(users[u])

\* C3: when a bio of at least 5 characters is accepted in AwaitingBio, the
\* store afterwards holds the user's profile with completed = true and each
\* field equal to the session value where present, else the snapshot value.
Merged(ud, key, field) == IF key \in DOMAIN ud THEN ud[key] ELSE PreviousGet(ud, field)

C3_Saved(u, t) ==
    /\ u \in DOMAIN users'
    /\ users'[u].profile_completed = 1
    /\ users'[u].display_name = Merged(user_data[u], "profile_name", "name")
    /\ users'[u].age = Merged(user_data[u], "profile_age", "age")
    /\ users'[u].gender = Merged(user_data[u], "profile_gender", "gender")
    /\ users'[u].preferred_gender = Merged(user_data[u], "profile_preference", "preference")
    /\ users'[u].bio = Some(strip(t))

C3_AcceptedBioIsSaved ==
    [][\A u \in FormChatters : \A t \in BioTexts : \A m \in TelegramProfileMedia(u) :
          (finish_profile(u, t, m) /\ Len(strip(t)) >= 5) => C3_Saved(u, t)]_vars

\* C4: when B likes A while A's like of B is stored, both profiles are
\* completed and the transport accepts the sends, A and B are each delivered
\* exactly one match notification by that like.
C4_Case(u) ==
    /\ Candidate(u) # 0
    /\ StatusRow(Candidate(u), u, "like")
    /\ ensure_profile(DB, u) /\ ensure_profile(DB, Candidate(u))

C4_OneEach(u) ==
    delivered' = Bump(Bump(delivered, u, Candidate(u)), Candidate(u), u)

C4_ExactlyOneEach ==
    [][\A u \in Users : \A r \in Results :
          (C4_Case(u) /\ handle_like(u, AllOk, r)) => C4_OneEach(u)]_vars

C4_Witness ==
    /\ StatusRow(1, 2, "like") /\ StatusRow(2, 1, "like")
    /\ delivered[1][2] = 1 /\ delivered[2][1] = 1
    /\ ~uncaught

\* C5: a match notification for the same pair is delivered to each party at
\* most once, over any sequence of operations.
C5_AtMostOnce ==
    \A a \in Users, b \in Users : delivered[a][b] <= 1

\* C6: the likes table holds at most one row per ordered pair, and a
\* reaction leaves the pair's row with the status and the timestamp of that
\* call.
C6_Unique ==
    \A l1 \in likes, l2 \in likes :
        (l1.from_user_id = l2.from_user_id /\ l1.to_user_id = l2.to_user_id) => l1 = l2

C6_LastWrite ==
    \A u \in Users : \A o \in NotifyOutcomes : \A r \in Results :
        /\ (Candidate(u) # 0 /\ handle_like(u, o, r))
              => {l \in likes' : l.from_user_id = u /\ l.to_user_id = Candidate(u)}
                 = {[from_user_id |-> u, to_user_id |-> Candidate(u),
                     status |-> "like", created_at |-> now]}
        /\ (Candidate(u) # 0 /\ handle_skip(u, r))
              => {l \in likes' : l.from_user_id = u /\ l.to_user_id = Candidate(u)}
                 = {[from_user_id |-> u, to_user_id |-> Candidate(u),
                     status |-> "skip", created_at |-> now]}

C6_UpsertLastWriteWins == []C6_Unique /\ [][C6_LastWrite]_vars

\* user 1 was notified of a match with 2 (so had liked 2) and the pair's row
\* now says skip, written at a later second: the row was overwritten
C6_Witness ==
    /\ delivered[1][2] >= 1
    /\ \E l \in likes : /\ l.from_user_id = 1 /\ l.to_user_id = 2
                        /\ l.status = "skip" /\ l.created_at > 0

\* C7: has_mutual_like(a,b) is true exactly when the store holds a like row
\* a->b and a like row b->a.
C7_MutualIffBothLikes ==
    \A a \in Users, b \in Users :
        has_mutual_like(DB, a, b) <=> (StatusRow(a, b, "like") /\ StatusRow(b, a, "like"))

C7_Witness ==
    /\ StatusRow(1, 2, "like") /\ StatusRow(2, 1, "skip")
    /\ ~has_mutual_like(DB, 1, 2)

\* C8: has_mutual_like(a,b) = has_mutual_like(b,a) for every pair of users.
C8_Symmetric ==
    \A a \in Users, b \in Users : has_mutual_like(DB, a, b) = has_mutual_like(DB, b, a)

C8_Witness ==
    has_mutual_like(DB, 1, 2) /\ has_mutual_like(DB, 2, 1)

\* C9: a profile returned by get_next_profile(viewer) is completed, is not
\* the viewer, has no reaction row from the viewer and passes both
\* preference filters when both sides of a filter are set; a candidate whose
\* filters each have an unset side is not excluded.
BothSet(a, b) == Truthy(a) /\ Truthy(b)

Unreacted(v) ==
    {c \in DOMAIN users : c # v /\ users[c].profile_completed = 1 /\ ~HasReaction(v, c)}

C9_Returned(v, c) ==
    /\ c \in Unreacted(v)
    /\ BothSet(users[v].preferred_gender, users[c].gender)
          => users[c].gender = users[v].preferred_gender
    /\ BothSet(users[c].preferred_gender, users[v].gender)
          => users[c].preferred_gender = users[v].gender

C9_ReturnedIsEligible ==
    \A v \in DOMAIN users :
        /\ \A r \in NextProfiles(DB, v) : r # None => C9_Returned(v, r[1])
        /\ \A c \in Unreacted(v) :
              (/\ ~BothSet(users[v].preferred_gender, users[c].gender)
               /\ ~BothSet(users[c].preferred_gender, users[v].gender))
                  => None \notin NextProfiles(DB, v)

\* the viewer is shown c although a more recently updated, unreacted
\* profile d exists whose gender is not the one the viewer looks for
C9_Witness ==
    \E c \in Users, d \in Users :
        /\ Candidate(1) = c /\ d \in Unreacted(1) /\ d # c
        /\ users[d].updated_at > users[c].updated_at
        /\ BothSet(users[1].preferred_gender, users[d].gender)
        /\ users[d].gender # users[1].preferred_gender
        /\ BothSet(users[1].preferred_gender, users[c].gender)
        /\ BothSet(users[c].preferred_gender, users[1].gender)

\* C10: get_next_profile gives a profile with the greatest updated_at among
\* those that pass the filters, and none only when no profile passes.
Eligible(v) == {c \in Unreacted(v) : C9_Returned(v, c)}

C10_MostRecentEligible ==
    \A v \in DOMAIN users : \A r \in NextProfiles(DB, v) :
        IF Eligible(v) = {} THEN r = None
        ELSE /\ r # None
             /\ r[1] \in Eligible(v)
             /\ \A e \in Eligible(v) : users[e].updated_at <= users[r[1]].updated_at

\* the viewer is shown c while an older profile passes the filters too
C10_Witness ==
    \E c \in Users, d \in Users :
        /\ Candidate(1) = c /\ c \in Eligible(1) /\ d \in Eligible(1)
        /\ users[d].updated_at < users[c].updated_at

\* C11: get_next_profile has a single possible result in every store state:
\* among qualifying candidates with the same updated_at a secondary key
\* fixes which one is returned.
C11_SingleResult ==
    \A v \in DOMAIN users : Cardinality(NextProfiles(DB, v)) = 1

\* C12: a session entered by /start, /reset or the edit caption stands in
\* AwaitingName, every later step leaves the form state where it is, moves it
\* to the next state in the order name, age, gender, preference, media, bio,
\* or ends the session, and a profile is persisted only from AwaitingBio.
FormState(u) ==
    IF profile_conversation[u] # END THEN profile_conversation[u]
    ELSE reprofile_conversation[u]

EntersForm(u) ==
    \/ restart_profile(u)
    \/ ensure_profile(DB, u) /\ edit_profile_message(u)
    \/ ~ensure_profile(DB, u) /\ start(u)

Persisted(u) ==
    /\ u \in DOMAIN users' /\ users'[u].profile_completed = 1
    /\ (u \notin DOMAIN users \/ [users[u] EXCEPT !.username = users'[u].username] # users'[u])

C12_Step(u) ==
    LET s == FormState(u)
        t == FormState(u)'
    IN  /\ EntersForm(u) => t = ASK_NAME
        /\ ~EntersForm(u) =>
              t \in {s, END} \cup (IF s \in ASK_NAME..ASK_PHOTO THEN {s + 1} ELSE {})
        /\ Persisted(u) => s = ASK_BIO

C12_StatesInOrder == [][\A u \in FormChatters : C12_Step(u)]_vars

\* C13: an input that fails validation in AwaitingName, AwaitingAge,
\* AwaitingGender, AwaitingPreference, AwaitingMedia or AwaitingBio leaves
\* both conversation states, the whole session (pending fields and previous
\* snapshot) and the store unchanged.
C13_Frame ==
    UNCHANGED <<users, likes, user_data, profile_conversation, reprofile_conversation>>

IsKeep(text, button) == button # None /\ text = button[1]

BadName(u, t) == Len(strip(t)) < 2

BadAge(u, t) ==
    LET previous_age == PreviousGet(user_data[u], "age")
    IN  /\ ~(previous_age # None /\ strip(t) = keep_age_button(previous_age[1]))
        /\ IF isdigit(strip(t)) /\ ~int_raises(strip(t))
           THEN int(strip(t)) \notin 16..100 ELSE TRUE

BadGender(u, t) ==
    /\ ~IsKeep(strip(t), keep_gender_button(PreviousGet(user_data[u], "gender")))
    /\ strip(t) \notin DOMAIN GENDER_TEXT_TO_CODE

BadPreference(u, t) ==
    /\ ~IsKeep(strip(t), keep_preference_button(PreviousGet(user_data[u], "preference")))
    /\ strip(t) \notin DOMAIN LOOKING_TEXT_TO_CODE

BadBio(t) == Len(strip(t)) < 5

C13_Step(u) ==
    /\ \A t \in NameTexts(u) : (BadName(u, t) /\ ask_name(u, t)) => C13_Frame
    /\ \A t \in AgeTexts(u) : (BadAge(u, t) /\ ask_age(u, t)) => C13_Frame
    /\ \A t \in GenderTexts(u) : (BadGender(u, t) /\ ask_gender(u, t)) => C13_Frame
    /\ \A t \in PreferenceTexts(u) :
          (BadPreference(u, t) /\ ask_preference(u, t)) => C13_Frame
    /\ invalid_photo_text(u, Plain("Ann")) => C13_Frame
    /\ \A t \in BioTexts : \A m \in TelegramProfileMedia(u) :
          (BadBio(t) /\ finish_profile(u, t, m)) => C13_Frame

C13_RejectedInputChangesNothing == [][\A u \in FormChatters : C13_Step(u)]_vars

\* an edit session stands in AwaitingMedia with four pending fields and a
\* snapshot over a completed stored profile: a text typed here is rejected
C13_Witness ==
    /\ FormState(1) = ASK_PHOTO
    /\ {"profile_name", "profile_age", "profile_gender", "profile_preference",
        "profile_previous"} \subseteq DOMAIN user_data[1]
    /\ ensure_profile(DB, 1)

\* C14: ask_age accepts a numeric text exactly when its value is in
\* [16,100], ask_name accepts exactly when the trimmed text has at least 2
\* characters, finish_profile accepts exactly when the trimmed bio has at
\* least 5 characters. Accepting is moving the conversation that took the
\* text on to the next state with the value kept.
Moved(u, from, to) ==
    IF profile_conversation[u] # END
    THEN profile_conversation[u] = from /\ profile_conversation'[u] = to
    ELSE reprofile_conversation[u] = from /\ reprofile_conversation'[u] = to

AcceptsName(u, t) ==
    ENABLED (/\ ask_name(u, t)
             /\ Moved(u, ASK_NAME, ASK_AGE)
             /\ user_data'[u]["profile_name"] = Some(strip(t)))

AcceptsAge(u, t) ==
    ENABLED (/\ ask_age(u, t)
             /\ Moved(u, ASK_AGE, ASK_GENDER)
             /\ user_data'[u]["profile_age"] = Some(int(strip(t))))

AcceptsBio(u, t) ==
    ENABLED (finish_profile(u, t, <<>>) /\ Moved(u, ASK_BIO, END))

C14_ThresholdsExact ==
    \A u \in FormChatters :
        /\ FormState(u) = ASK_NAME =>
              \A t \in ValidateNames : AcceptsName(u, t) <=> Len(strip(t)) >= 2
        /\ FormState(u) = ASK_AGE =>
              \A t \in ValidateAges :
                  (isdigit(strip(t)) /\ ~int_raises(strip(t)))
                     => (AcceptsAge(u, t) <=> int(strip(t)) \in 16..100)
        /\ FormState(u) = ASK_BIO =>
              \A t \in ValidateBios : AcceptsBio(u, t) <=> Len(strip(t)) >= 5

\* the stored profile came from the inputs on the accepting side of the
\* three thresholds
C14_Witness ==
    /\ ensure_profile(DB, 1)
    /\ users[1].display_name = Some("Al")
    /\ users[1].age \in {Some(16), Some(100)}
    /\ users[1].bio = Some("Loved")

\* C15: an edit session's snapshot holds the fields stored when the edit
\* began and is not altered while the session lasts; the keep option of
\* name, age, gender or preference puts the snapshot's value into the session
\* and advances; a save stores the snapshot's value for every field whose
\* session value is the snapshot's.
HasSnapshot(u) == "profile_previous" \in DOMAIN user_data[u]
Snapshot(u) == user_data[u]["profile_previous"]

EditEntry(u) == ensure_profile(DB, u) /\ (edit_profile_message(u) \/ edit_profile_callback(u))

KeepCaption(button) == IF button = None THEN {} ELSE {Plain(button[1])}
KeepName(u) ==
    KeepCaption(IF Truthy(Snapshot(u).name)
                THEN Some(keep_name_button(Snapshot(u).name[1])) ELSE None)
KeepAge(u) ==
    KeepCaption(IF Snapshot(u).age # None
                THEN Some(keep_age_button(Snapshot(u).age[1])) ELSE None)
KeepGender(u) == KeepCaption(keep_gender_button(Snapshot(u).gender))
KeepPreference(u) == KeepCaption(keep_preference_button(Snapshot(u).preference))

C15_Entry(u) ==
    EditEntry(u) =>
        /\ HasSnapshot(u)'
        /\ Snapshot(u)'.name = users[u].display_name
        /\ Snapshot(u)'.age = users[u].age
        /\ Snapshot(u)'.gender = users[u].gender
        /\ Snapshot(u)'.preference = users[u].preferred_gender

C15_SnapshotKept(u) ==
    (HasSnapshot(u) /\ HasSnapshot(u)' /\ ~EditEntry(u)) => Snapshot(u)' = Snapshot(u)

C15_Keep(u) ==
    HasSnapshot(u) =>
        /\ \A t \in KeepName(u) : ask_name(u, t) =>
              /\ user_data'[u]["profile_name"] = Snapshot(u).name
              /\ Moved(u, ASK_NAME, ASK_AGE)
        /\ \A t \in KeepAge(u) : ask_age(u, t) =>
              /\ user_data'[u]["profile_age"] = Snapshot(u).age
              /\ Moved(u, ASK_AGE, ASK_GENDER)
        /\ \A t \in KeepGender(u) : ask_gender(u, t) =>
              /\ user_data'[u]["profile_gender"] = Snapshot(u).gender
              /\ Moved(u, ASK_GENDER, ASK_LOOKING_FOR)
        /\ \A t \in KeepPreference(u) : ask_preference(u, t) =>
              /\ user_data'[u]["profile_preference"] = Snapshot(u).preference
              /\ Moved(u, ASK_LOOKING_FOR, ASK_PHOTO)

C15_Save(u) ==
    (HasSnapshot(u) /\ Persisted(u)
       /\ \E t \in BioTexts : \E m \in TelegramProfileMedia(u) : finish_profile(u, t, m)) =>
        /\ Get(user_data[u], "profile_name", Snapshot(u).name) = Snapshot(u).name
              => users'[u].display_name = Snapshot(u).name
        /\ Get(user_data[u], "profile_age", Snapshot(u).age) = Snapshot(u).age
              => users'[u].age = Snapshot(u).age
        /\ Get(user_data[u], "profile_gender", Snapshot(u).gender) = Snapshot(u).gender
              => users'[u].gender = Snapshot(u).gender
        /\ Get(user_data[u], "profile_preference", Snapshot(u).preference)
              = Snapshot(u).preference
              => users'[u].preferred_gender = Snapshot(u).preference

C15_KeepPrevious ==
    [][\A u \in FormChatters :
          C15_Entry(u) /\ C15_SnapshotKept(u) /\ C15_Keep(u) /\ C15_Save(u)]_vars

\* an edit session stands in AwaitingBio with the name and the age of the
\* snapshot in the session and a gender that was typed anew
C15_Witness ==
    /\ HasSnapshot(1) /\ FormState(1) = ASK_BIO
    /\ {"profile_name", "profile_age", "profile_gender"} \subseteq DOMAIN user_data[1]
    /\ user_data[1]["profile_name"] = Snapshot(1).name
    /\ user_data[1]["profile_age"] = Snapshot(1).age
    /\ user_data[1]["profile_gender"] # Snapshot(1).gender
    /\ ensure_profile(DB, 1)

\* C16: in each of AwaitingName .. AwaitingBio the cancel caption and the
\* /cancel command are taken by cancel_profile, which ends the conversation
\* that took them; after it the session holds no pending field, snapshot or
\* editing flag and the store is as it was.
CancelEvents == {TextEv(Plain(CANCEL_BUTTON)), CommandEv("/cancel")}

C16_Accepted ==
    \A u \in FormChatters :
        FormState(u) # END =>
            \A ev \in CancelEvents :
                ENABLED (cancel_profile(u, ev) /\ Moved(u, FormState(u), END))

C16_Effect ==
    \A u \in FormChatters : \A ev \in CancelEvents :
        cancel_profile(u, ev) =>
            /\ DOMAIN user_data'[u] \cap SessionKeys = {}
            /\ UNCHANGED <<users, likes>>

C16_CancelClearsSession == []C16_Accepted /\ [][C16_Effect]_vars

\* a user who began with /start and was never shown a profile card has no
\* conversation left: the form was cancelled
C16_Witness ==
    /\ 1 \in DOMAIN users /\ users[1].profile_completed = 0
    /\ profile_conversation[1] = END /\ reprofile_conversation[1] = END
    /\ ~actions_keyboard[1]
    /\ DOMAIN user_data[1] \cap SessionKeys = {}

\* C17: after a cancel signal the user has no open conversation, so that a
\* later text goes to the menu handlers and to no form step.
C17_CancelAbsorbs ==
    [][\A u \in FormChatters : \A ev \in CancelEvents :
          cancel_profile(u, ev) =>
              /\ profile_conversation'[u] = END /\ reprofile_conversation'[u] = END
              /\ Route(u, TextEv(Plain("Ann")))'[2] = "unknown"]_vars

\* C18: after a completed save, a cancel, /reset or the inline reset button
\* the user's session holds no pending field, no snapshot and no editing
\* flag.
SessionGone(u) == DOMAIN user_data[u] \cap SessionKeys = {}

C18_Step(u) ==
    /\ (\E t \in BioTexts : \E m \in TelegramProfileMedia(u) :
           finish_profile(u, t, m) /\ Moved(u, ASK_BIO, END)) => SessionGone(u)'
    /\ (\E ev \in CancelEvents : cancel_profile(u, ev)) => SessionGone(u)'
    /\ restart_profile(u) => SessionGone(u)'
    /\ reset_profile_callback(u) => SessionGone(u)'

C18_SessionDestroyed == [][\A u \in FormChatters : C18_Step(u)]_vars

\* C19: a session's pending media and every stored profile's media hold at
\* most 3 items, also after re-entry through /start.
PendingMedia(u) == Get(user_data[u], "profile_photos", <<>>)

C19_AtMostThree ==
    /\ \A u \in FormChatters : Len(PendingMedia(u)) <= 3
    /\ \A id \in DOMAIN users : Len(extract_photo_refs(Some(users[id]))) <= 3

\* C20: the refs passed to set_profile or update_photo_refs are what
\* extract_photo_refs returns from the user's row afterwards, in the same
\* order, each with its handle, source url and kind.
C20_Stored(u) == extract_photo_refs(Some(users[u]))

C20_RoundTrip ==
    [][\A u \in FormChatters :
          (set_profile_call(u) \/ update_photo_refs_call(u))
              => C20_Stored(u)' = PendingMedia(u)]_vars

\* C21: when a like completes a mutual like and one notification send fails
\* (the content is rejected, or the recipient blocked the bot), the other
\* party is still delivered its notification, the like stays recorded and
\* the like handler runs to its end.
C21_Liked(u) == record_reaction(DB, u, Candidate(u), "like")

C21_Case(u, o) ==
    /\ Candidate(u) # 0
    /\ has_mutual_like(C21_Liked(u), u, Candidate(u))
    /\ notify_match(C21_Liked(u), u, Candidate(u), o, delivered).sent
    /\ (o[1] # "ok" \/ o[2] # "ok")
    /\ o[3] = "ok" /\ o[4] = "ok"

C21_Effect(u, o) ==
    /\ \E l \in likes' : /\ l.from_user_id = u /\ l.to_user_id = Candidate(u)
                          /\ l.status = "like"
    /\ o[1] = "ok" => delivered'[u][Candidate(u)] = delivered[u][Candidate(u)] + 1
    /\ o[2] = "ok" => delivered'[Candidate(u)][u] = delivered[Candidate(u)][u] + 1
    /\ ~uncaught'

C21_BestEffortPerRecipient ==
    [][\A u \in Users : \A o \in NotifyOutcomes : \A r \in Results :
          (C21_Case(u, o) /\ handle_like(u, o, r)) => C21_Effect(u, o)]_vars

\* C22: a failed or timed-out fetch of a ref's url does not abort the
\* caller: the card is delivered as text only and the handler runs to its
\* end.
C22_FetchFails(u, fetch) ==
    LET photos == extract_photo_refs(get_user(DB, u))
    IN  /\ ensure_profile(DB, u)
        /\ photos # <<>>
        /\ resolve_media_input(photos[1], fetch[1]).raised

C22_FetchFailureDegrades ==
    [][\A u \in BrowseChatters : \A fetch \in RenderFetches :
          (C22_FetchFails(u, fetch) /\ show_profile(u, fetch, SendOk))
              => (~uncaught' /\ actions_keyboard'[u])]_vars

\* C23: a ref that has a handle resolves to that handle, not fetched and
\* with no GET issued, with or without a url; a rendering pass fetches no
\* such ref.
StoredMedia(u) == extract_photo_refs(get_user(DB, u))

C23_HandleIsCacheHit ==
    \A u \in DOMAIN users : \A i \in DOMAIN StoredMedia(u) :
        Truthy(StoredMedia(u)[i].file_id) =>
            /\ \A f \in FetchOutcomes :
                  LET res == resolve_media_input(StoredMedia(u)[i], f)
                  IN  /\ res.input = StoredMedia(u)[i].file_id
                      /\ ~res.fetched /\ ~res.network /\ ~res.raised
            /\ \A fetch \in RenderFetches : \A send \in RenderSends :
                  i \notin card_pass(StoredMedia(u), fetch, send, TRUE).fetches

C23_Witness ==
    /\ StoredMedia(1) # <<>>
    /\ Truthy(StoredMedia(1)[1].file_id) /\ Truthy(StoredMedia(1)[1].url)
    /\ Len(StoredMedia(1)) = 1
    /\ actions_keyboard[1] /\ ~uncaught

\* C24: after the first successful send of a ref that had no handle, the
\* handle issued by the platform is stored in that ref of the owner's
\* profile, and a later render resolves the ref with no GET.
C24_FirstSend(u, fetch, send) ==
    /\ ensure_profile(DB, u)
    /\ StoredMedia(u) # <<>>
    /\ ~Truthy(StoredMedia(u)[1].file_id) /\ Truthy(StoredMedia(u)[1].url)
    /\ fetch = FetchOk /\ send = SendOk

C24_ReadThrough(u) ==
    /\ Truthy(StoredMedia(u)[1].file_id)
    /\ \A fetch \in RenderFetches :
          1 \notin card_pass(StoredMedia(u), fetch, SendOk, TRUE).fetches

C24_WriteThroughReadThrough ==
    [][\A u \in BrowseChatters : \A fetch \in RenderFetches :
          \A send \in RenderSends :
             (C24_FirstSend(u, fetch, send) /\ show_profile(u, fetch, send))
                 => C24_ReadThrough(u)']_vars

\* C25: one rendering pass resolves, fetches, sends and hydrates refs among
\* the first three of the sequence only; a fourth ref is left as it is.
C25_Pass(photos, fetch, send, safe_first) ==
    LET pass == card_pass(photos, fetch, send, safe_first)
    IN  /\ pass.resolved \cup pass.fetches \cup pass.sends \cup pass.hydrated \subseteq 1..3
        /\ \A i \in DOMAIN photos : i > 3 => pass.refs[i] = photos[i]

C25_FirstThreeOnly ==
    \A u \in DOMAIN users :
        \A fetch \in RenderFetches : \A send \in RenderSends :
            \A safe_first \in BOOLEAN : C25_Pass(StoredMedia(u), fetch, send, safe_first)

C25_Witness ==
    /\ Len(StoredMedia(1)) = 4
    /\ \A i \in 1..4 : ~Truthy(StoredMedia(1)[i].file_id)
    /\ actions_keyboard[1]

\* C28: reset_profile(u) leaves u's row incomplete with name, age, bio,
\* gender, preference and media cleared, deletes the reactions u authored
\* and no other, and leaves the other rows as they were.
Cleared(row) ==
    /\ row.display_name = None /\ row.age = None /\ row.bio = None
    /\ row.gender = None /\ row.preferred_gender = None
    /\ extract_photo_refs(Some(row)) = <<>>
    /\ row.profile_completed = 0

C28_Effect(u) ==
    /\ DOMAIN users' = DOMAIN users
    /\ u \in DOMAIN users => Cleared(users[u])'
    /\ \A v \in DOMAIN users \ {u} : users'[v] = users[v]
    /\ likes' = {l \in likes : l.from_user_id # u}

C28_ResetFrame ==
    [][\A u \in MatchChatters :
          (reset_profile_callback(u) \/ restart_profile(u)) => C28_Effect(u)]_vars

C28_Witness ==
    /\ DOMAIN users = Users
    /\ Cleared(users[1])
    /\ users[1].updated_at = 1
    /\ StatusRow(2, 1, "like") /\ StatusRow(2, 3, "like")
    /\ ~HasReaction(1, 2) /\ ~HasReaction(1, 3)
    /\ users[2].photo_urls # None

\* C29: delete_user(u) removes u's row and every reaction from u or to u,
\* and leaves the other rows and the reactions between other users as they
\* were.
C29_Effect(u) ==
    /\ DOMAIN users' = DOMAIN users \ {u}
    /\ \A v \in DOMAIN users \ {u} : users'[v] = users[v]
    /\ likes' = {l \in likes : l.from_user_id # u /\ l.to_user_id # u}

C29_DeleteRemovesBothDirections ==
    [][\A u \in MatchChatters : delete_profile_callback(u) => C29_Effect(u)]_vars

C29_Witness ==
    /\ DOMAIN users = Users \ {1}
    /\ \A l \in likes : l.from_user_id # 1 /\ l.to_user_id # 1
    /\ StatusRow(2, 3, "like") /\ StatusRow(3, 2, "like")
    /\ users[2] = Onboarded(2)

\* C30: after the edit menu text or the inline edit button is accepted for a
\* completed profile, the session holds a snapshot equal to the stored
\* profile and the user is in AwaitingName: the next text goes to the name
\* step.
C30_SnapshotOfStored(u) ==
    /\ HasSnapshot(u)
    /\ Snapshot(u).name = users[u].display_name
    /\ Snapshot(u).age = users[u].age
    /\ Snapshot(u).gender = users[u].gender
    /\ Snapshot(u).preference = users[u].preferred_gender
    /\ Snapshot(u).bio = users[u].bio
    /\ Snapshot(u).photos = extract_photo_refs(Some(users[u]))

C30_EditEntersNameStep ==
    [][\A u \in FormChatters :
          EditEntry(u) =>
              /\ C30_SnapshotOfStored(u)'
              /\ InState(u, ASK_NAME)'
              /\ Route(u, TextEv(Plain("Ann")))'[2] = "ask_name"]_vars

\* C26: no handler holds the store lock while a network call it issued (a
\* media fetch, a message send, a callback answer) is in progress; so a
\* handler waiting to enter a store operation is never kept out by one whose
\* fetch or send is still in flight.
C26_NoNetworkUnderLock ==
    \A w \in Workers :
        InFlight(w) =>
            /\ lock # w
            /\ \A v \in Workers \ {w} : Waiting(v) => lock = 0

\* a media fetch is in flight while the other handler is about to enter a
\* store operation
C26_Witness ==
    \E w \in Workers : \E v \in Workers \ {w} :
        /\ InFlight(w)
        /\ Block(pc[w].block)[pc[w].at - 1] = "fetch"
        /\ Waiting(v)

\* fields cleared, reactions not yet deleted
MidReset(w) == Kind(w) = "delete_authored"
\* reactions deleted, row not yet deleted
MidDelete(w) == Kind(w) = "delete_row"

\* C27: every statement of a store operation runs with the store lock held by
\* the handler executing it, at most one handler is inside a store operation
\* at any time, and while reset_profile is between its field clearing and its
\* reaction deletion, or delete_user between its reaction deletion and its
\* row deletion, no other handler is at a statement that reads or writes the
\* store.
C27_StoreOperationsAtomic ==
    \A w \in Workers :
        /\ Inside(w) => lock = w /\ \A v \in Workers \ {w} : ~Inside(v)
        /\ MidReset(w) \/ MidDelete(w) =>
              \A v \in Workers \ {w} : Kind(v) \notin StatementKinds

\* delete_user has deleted the reactions and not yet the row, while the other
\* user's get_next_profile waits for the lock
C27_Witness ==
    \E w \in Workers : \E v \in Workers \ {w} :
        /\ MidDelete(w)
        /\ w \in DOMAIN users
        /\ pc[v].handler = "browse_profiles"
        /\ Waiting(v)
        /\ Block(pc[v].block)[pc[v].at + 1] = "select_next"

\* ------------------------------------------------------------------ C31
\* a step of the form before the bio
FormStep(u) ==
    \/ InState(u, ASK_NAME) /\ \E t \in NameTexts(u) : ask_name(u, t)
    \/ InState(u, ASK_AGE) /\ \E t \in AgeTexts(u) : ask_age(u, t)
    \/ InState(u, ASK_GENDER) /\ \E t \in GenderTexts(u) : ask_gender(u, t)
    \/ InState(u, ASK_LOOKING_FOR) /\ \E t \in PreferenceTexts(u) : ask_preference(u, t)
    \/ InState(u, ASK_PHOTO) /\ \E f \in PhotoIds : receive_photo(u, f)
    \/ InState(u, ASK_PHOTO) /\ \E m \in TelegramProfileMedia(u) : skip_photo(u, m)
    \/ InState(u, ASK_PHOTO) /\ invalid_photo_text(u, Plain("Ann"))

\* C31: a step of the form in the name, age, gender, preference or media
\* state, accepted or rejected, with its preview card, leaves every profile
\* row and every reaction as it was.
C31_FormStepsKeepStore ==
    [][\A u \in FormChatters : FormStep(u) => UNCHANGED <<users, likes>>]_vars

\* the form has taken media and shown the preview while the stored row is
\* still the one /start created
C31_Witness ==
    \E u \in FormChatters :
        /\ InState(u, ASK_BIO)
        /\ Get(user_data[u], "profile_photos", <<>>) # <<>>
        /\ u \in DOMAIN users
        /\ users[u] = NewRow(UsernameOf(u))

\* ------------------------------------------------------------------ C32
Pointer(u) == Get(user_data[u], "current_candidate", 0)

\* send_next_profile ran for u and get_next_profile gave no row
C32_NoneReturned(u) ==
    \/ ensure_profile(DB, u) /\ browse_profiles(u, None)
    \/ Pointer(u) # 0 /\ handle_skip(u, None)
    \/ Pointer(u) # 0 /\ uncaught' = FALSE /\ \E o \in NotifyOutcomes : handle_like(u, o, None)

\* a like or a skip arrived while u's pointer was not set
C32_NoPointer(u) ==
    /\ Pointer(u) = 0
    /\ \/ handle_skip(u, None)
       \/ handle_like(u, AllOk, None)

C33_Rejected(u) ==
    /\ user_data'[u] = user_data[u]
    /\ profile_conversation'[u] = profile_conversation[u]
    /\ reprofile_conversation'[u] = reprofile_conversation[u]

\* C33: a text shaped like a keep-previous caption has no effect of its own
\* when the snapshot holds no value for the field (or there is no snapshot):
\* it is validated as raw input, so the gender and preference steps reject
\* it, the age step rejects it, and the name step stores the typed text
\* itself.
C33_SentinelNeedsSnapshot ==
    [][\A u \in FormChatters : \A t \in SentinelTexts :
          /\ ~Truthy(PreviousGet(user_data[u], "gender")) /\ ask_gender(u, t)
                => C33_Rejected(u)
          /\ ~Truthy(PreviousGet(user_data[u], "preference")) /\ ask_preference(u, t)
                => C33_Rejected(u)
          /\ PreviousGet(user_data[u], "age") = None /\ ask_age(u, t)
                => C33_Rejected(u)
          /\ ~Truthy(PreviousGet(user_data[u], "name")) /\ ask_name(u, t)
                => user_data'[u]["profile_name"] = Some(strip(t))]_vars

\* fresh onboarding has got past the name step on a text shaped like the
\* keep-name caption and waits at the gender step
C33_Witness ==
    \E u \in FormChatters :
        /\ ~HasSnapshot(u)
        /\ InState(u, ASK_GENDER)
        /\ Get(user_data[u], "profile_name", None) = Some(keep_name_button("Ann"))

\* ------------------------------------------------------------------ C34
\* C34: after /start is accepted for a user without a completed profile the
\* session holds no previous snapshot and no pending name, age, gender,
\* preference or media from an earlier session.
C34_FreshEntryEmptySession ==
    [][\A u \in FormChatters :
          start(u) /\ ~ensure_profile(upsert_user(DB, u, UsernameOf(u)), u)
             => DOMAIN user_data'[u] \cap SessionKeys = {}]_vars

\* ------------------------------------------------------------------ C35
\* C35: in every reachable state both ends of every reaction refer to an
\* existing profile row.
C35_ReactionsReferToRows ==
    \A l \in likes : l.from_user_id \in DOMAIN users /\ l.to_user_id \in DOMAIN users

\* ------------------------------------------------------------------ C36
\* C36: a reaction is recorded (or rewritten) only by a user whose own
\* profile is completed when the like or the skip arrives.
C36_OnlyCompletedReact ==
    [][\A l \in likes' \ likes : ensure_profile(DB, l.from_user_id)]_vars

\* ------------------------------------------------------------------ C37
\* the pass of w calls update_photo_refs: it normalises the refs and, if
\* that returns, runs the UPDATE
C37_WriteBack(w) ==
    /\ Kind(w) \in {"normalize", "update_refs"}
    /\ pc'[w] # pc[w]

\* C37: a write-back of the refs a render pass read for a candidate, made
\* after the candidate's stored media were changed by a save of their own,
\* leaves the candidate's stored media as that save left them.
C37_NoLostUpdate ==
    [][\A w \in Workers :
          /\ C37_WriteBack(w)
          /\ pc[w].candidate # None
          /\ StoredMedia(pc[w].candidate[1]) # pc[w].photos
          => extract_photo_refs(get_user([users |-> users', likes |-> likes'],
                                         pc[w].candidate[1]))
             = StoredMedia(pc[w].candidate[1])]_vars

\* the pass read user 2's media, user 2 then reset the profile and saved it
\* again without media, and the pass has called update_photo_refs, which
\* raised
C37_Witness ==
    /\ pc[Hydrator] = Idle
    /\ uncaught
    /\ Pointer(Hydrator) = Saver
    /\ Saver \in DOMAIN users
    /\ users[Saver].profile_completed = 1
    /\ StoredMedia(Saver) = <<>>

\* ------------------------------------------------------------------ C38
DBAfter == [users |-> users', likes |-> likes']

\* C38: update_photo_refs(u, refs) changes nothing but u's photo_urls and
\* photo_file_id: u's other columns, every other row and every reaction stay
\* as they were, and so does what get_next_profile returns to every viewer.
C38_OnlyMediaColumns ==
    [][\A u \in FormChatters :
          update_photo_refs_call(u) =>
             /\ likes' = likes
             /\ DOMAIN users' = DOMAIN users
             /\ \A v \in DOMAIN users \ {u} : users'[v] = users[v]
             /\ users'[u] = [users[u] EXCEPT !.photo_urls = users'[u].photo_urls,
                                             !.photo_file_id = users'[u].photo_file_id]
             /\ \A v \in Users : NextProfiles(DBAfter, v) = NextProfiles(DB, v)]_vars

\* the call was handed the empty sequence later than the row was saved and
\* has cleared the media of user 1
C38_Witness ==
    /\ now > 0
    /\ ~uncaught
    /\ \A u \in FormChatters :
          /\ users[u].photo_urls = None
          /\ users[u].profile_completed = 1
          /\ users[u].updated_at = 0

\* ------------------------------------------------------------------ C39
\* C39: /start by a user the store knows changes nothing but that row's
\* username (completed flag, name, age, gender, preference, bio, media and
\* updated_at stay), and /start by a user it does not know adds a row with
\* no fields and the completed flag off; every other row and every reaction
\* stay as they were.
C39_UpsertFrame ==
    [][\A u \in FormChatters :
          start(u) =>
             /\ likes' = likes
             /\ DOMAIN users' = DOMAIN users \cup {u}
             /\ \A v \in DOMAIN users \ {u} : users'[v] = users[v]
             /\ IF u \in DOMAIN users
                THEN users'[u] = [users[u] EXCEPT !.username = UsernameOf(u)]
                ELSE /\ users'[u].profile_completed = 0
                     /\ users'[u].username = UsernameOf(u)
                     /\ Cleared(users'[u])]_vars

\* a user with a completed profile and media has sent /start under a new
\* username
C39_Witness ==
    \E u \in FormChatters :
        /\ u \in DOMAIN users
        /\ users[u].username = UsernameOf(u)
        /\ users[u].profile_completed = 1
        /\ users[u].photo_urls # None

\* ------------------------------------------------------------------ C40
\* u reacted to the candidate shown
C40_Reaction(u) ==
    /\ Pointer(u) # 0
    /\ \/ \E r \in Results : handle_skip(u, r)
       \/ \E o \in NotifyOutcomes : \E r \in Results : handle_like(u, o, r)

\* C40: with a fixed set of profiles every reaction of the viewer to the
\* candidate shown is answered with a candidate the viewer has not reacted
\* to yet, or with the message that nobody is left; so no candidate is shown
\* twice and the message comes after at most as many reactions as there are
\* other completed profiles.
C40_EachReactionAdvances ==
    [][\A u \in BrowseChatters :
          C40_Reaction(u) =>
             \/ "current_candidate" \notin DOMAIN user_data'[u]
             \/ <<u, user_data'[u]["current_candidate"]>> \notin reacted']_vars

====
